---- MODULE Spec2Model ----
(***************************************************************************)
(* GLIDE-Lite: signalised corridor micro-simulation (backend/app_glide.py), *)
(* headway-driven transit signal priority (backend/core/glide/tsp.py) and   *)
(* the SUMO corridor backend (backend/core/glide/sumo_corridor.py).         *)
(*                                                                         *)
(* Units.  Positions are integers in millimetres, times that are not      *)
(* whole ticks are integers in milliseconds, whole ticks and TSP times are *)
(* seconds.  A uniform draw is a permille value u in 0..999 of the unit    *)
(* interval; the streams explored keep every product a whole number of    *)
(* millimetres or milliseconds.                                            *)
(***************************************************************************)
EXTENDS Integers, Sequences, FiniteSets, TLC

VARIABLES
    entry,               \* which entry point this behaviour exercises
    \* ---- TSPController (tsp.py) and its client ----
    last_grant_time,     \* TSPController.last_grant_time   (dict tls -> time)
    total_extensions,    \* TSPController.total_extensions  (dict tls -> sec)
    cycle_start_time,    \* TSPController.cycle_start_time  (dict tls -> time)
    cooldown,            \* cooldown argument used by the client
    max_cycle_extension, \* per-cycle budget argument used by the client
    now,                 \* the client's current time (sim_time)
    events,              \* SumoCorridorSimulator.events (TSP event log)
    can_grant,           \* last return of can_grant_tsp to the client
    \* ---- pure functions of tsp.py ----
    tsp_args,            \* arguments of the pending / last tsp_policy call
    decision,            \* TSPDecision returned by the last tsp_policy call
    phase_call,          \* arguments and return of the apply_tsp_to_phase call
    \* ---- pure functions of offsets.py ----
    offsets_call,        \* arguments and returns of compute_offsets / validate_offsets
    \* ---- two runs executing concurrently ----
    pair,                \* the two runs and the module state they share
    \* ---- one request posted again in another mode ----
    compared,            \* the response the client kept from the first post, if any
    \* ---- run_sim (app_glide.py) ----
    req,                 \* the validated SimRequest
    rng,                 \* state of the pseudorandom sources (random, numpy.random)
    pc,                  \* position of run_sim
    beat,                \* parity of the number of steps run_sim has executed
    k,                   \* cycle index of the car-demand loop
    car_depart_times,    \* car departure timeline (ms)
    li,                  \* index of the bus line whose schedule is being built
    t_bus,               \* next departure of that line (ms)
    times,               \* departures of that line built so far (ms)
    schedule,            \* dict line id -> sorted departures (ms)
    t,                   \* tick of the main loop
    vehicles,            \* active vehicles (in update order during a tick)
    moved,               \* vehicles kept by the current tick
    vi,                  \* index in vehicles of the next vehicle to update
    nv,                  \* the vehicle returned by the last update_one, if any
    out_count,           \* vehicles that left during the current tick
    stop_occupancy,      \* stop -> list of occupying bus ids
    stop_release_time,   \* stop -> list of release ticks, parallel to occupancy
    last_arrival_time,   \* stop -> tick of the last admission, if any
    monitor,             \* per-line and per-stop monitoring counters
    car_exited, car_zero_stop, car_delay_sum, car_stops_sum, car_travel_sum,
    car_exit_ts,         \* exit ticks of cars
    bus_delay_line,      \* dict line id -> delay totals of exited buses
    arrived,             \* vehicles that left the corridor so far
    car_i,               \* number of cars spawned so far
    bus_spawn_index,     \* line id -> number of buses spawned so far
    frames,              \* frames produced so far (run_sim and run_corridor)
    kpis,                \* KPI dict of the returned result, if any
    \* ---- run_corridor and SumoCorridorSimulator (sumo_corridor.py) ----
    call,                \* arguments of run_corridor and the facts of its environment
    connection_label,    \* SumoCorridorSimulator.connection_label, if any
    bus_passage_times,   \* SumoCorridorSimulator.bus_passage_times
    traci_loaded,        \* traci.isLoaded()
    attempt,             \* traci.start attempts made by start_simulation
    step,                \* loop index of run_corridor
    close_calls,         \* number of times close_connection has returned or raised
    result               \* the dict returned by run_corridor, if any

tspVars == <<last_grant_time, total_extensions, cycle_start_time, cooldown,
             max_cycle_extension, now, events, can_grant>>
policyVars == <<tsp_args, decision, phase_call, offsets_call, pair, compared>>
genVars == <<k, car_depart_times, li, t_bus, times, schedule>>
stopVars == <<stop_occupancy, stop_release_time, last_arrival_time, monitor>>
kpiVars == <<car_exited, car_zero_stop, car_delay_sum, car_stops_sum,
             car_travel_sum, car_exit_ts, bus_delay_line, arrived>>
loopVars == <<t, vehicles, moved, vi, nv, out_count, car_i, bus_spawn_index,
              frames, kpis>>
simVars == <<req, rng, pc, beat, genVars, stopVars, kpiVars, loopVars>>
\* the run_sim variables that run_corridor does not use
simRest == <<req, rng, genVars, stopVars, kpiVars, t, vehicles, moved, vi, nv,
             out_count, car_i, bus_spawn_index>>
corVars == <<call, connection_label, bus_passage_times, traci_loaded, attempt,
             step, close_calls, result>>

vars == <<entry, tspVars, policyVars, simVars, corVars>>

-----------------------------------------------------------------------------
(* Python helpers *)

Min(a, b) == IF a <= b THEN a ELSE b
Max(a, b) == IF a >= b THEN a ELSE b

\* dict.get(k, default)
Get(d, key, default) == IF key \in DOMAIN d THEN d[key] ELSE default

\* d[k] = v
Put(d, key, val) == [x \in (DOMAIN d) \cup {key} |-> IF x = key THEN val ELSE d[x]]

EmptyDict == [x \in {} |-> 0]

\* the run_sim variables that only run_sim uses, while it is not running
SimRestIdle ==
    /\ req = <<>> /\ rng = <<>>
    /\ k = 0 /\ car_depart_times = <<>> /\ li = 0 /\ t_bus = 0 /\ times = <<>>
    /\ schedule = EmptyDict
    /\ stop_occupancy = EmptyDict /\ stop_release_time = EmptyDict
    /\ last_arrival_time = EmptyDict /\ monitor = <<>>
    /\ car_exited = 0 /\ car_zero_stop = 0 /\ car_delay_sum = 0
    /\ car_stops_sum = 0 /\ car_travel_sum = 0 /\ car_exit_ts = <<>>
    /\ bus_delay_line = EmptyDict /\ arrived = 0
    /\ t = 0 /\ vehicles = <<>> /\ moved = <<>> /\ vi = 0 /\ nv = <<>>
    /\ out_count = 0 /\ car_i = 0 /\ bus_spawn_index = EmptyDict

\* run_sim is not running (behaviours of the other entry points)
SimIdle == SimRestIdle /\ pc = "off" /\ beat = 0 /\ frames = <<>> /\ kpis = <<>>

\* run_corridor is not running (behaviours of the other entry points)
CorIdle ==
    /\ call = <<>> /\ connection_label = <<>> /\ bus_passage_times = <<>>
    /\ traci_loaded = FALSE /\ attempt = 0 /\ step = 0 /\ close_calls = 0
    /\ result = <<>>

-----------------------------------------------------------------------------
(* tsp.py *)

\* Bounds of the TSP client
MaxTime == 4
MaxEvents == 2

TlsIds == {"J1", "J2"}
Cooldowns == {0, 2}
Budgets == {10}

\* TSPDecision()
TSPDecision == [grant |-> FALSE, extend |-> 0, advance |-> 0, hold |-> 0,
                reason |-> ""]

\* no apply_tsp_to_phase call is pending
PhaseIdle ==
    phase_call = [called |-> FALSE, current_green_remaining |-> 0,
                  current_cycle_extensions |-> 0, decision |-> TSPDecision,
                  min_green |-> 10, max_cycle_extension |-> 10,
                  ret |-> <<0, FALSE>>]

\* no compute_offsets call is pending
OffsetsIdle ==
    offsets_call = [called |-> FALSE, validated |-> FALSE, distances_m |-> <<>>,
                    cycle_s |-> 90, v_prog_kmh |-> 40, ret |-> <<>>,
                    valid |-> FALSE]

\* no pair of concurrent runs is being followed
PairIdle == pair = <<>>

\* an early branch that asks for no hold at the stop
tsp_policy_nohold(h_now, H, delta, max_ext, max_adv) ==
    IF h_now > H + delta
    THEN [grant |-> TRUE, extend |-> max_ext, advance |-> max_adv, hold |-> 0,
          reason |-> "Late bus"]
    ELSE [grant |-> FALSE, extend |-> 0, advance |-> 0, hold |-> 0,
          reason |-> "Normal headway"]

\* trigger comparisons that include the boundaries H - delta and H + delta
tsp_policy_nonstrict(h_now, H, delta, max_ext, max_adv) ==
    IF h_now >= H + delta
    THEN [grant |-> TRUE, extend |-> max_ext, advance |-> max_adv, hold |-> 0,
          reason |-> "Late bus"]
    ELSE IF h_now <= H - delta
    THEN [grant |-> FALSE, extend |-> 0, advance |-> 0, hold |-> 15,
          reason |-> "Early bus"]
    ELSE [grant |-> FALSE, extend |-> 0, advance |-> 0, hold |-> 0,
          reason |-> "Normal headway"]

\* a swapped extend/advance assignment in the late branch
tsp_policy_swapped(h_now, H, delta, max_ext, max_adv) ==
    IF h_now > H + delta
    THEN [grant |-> TRUE, extend |-> max_adv, advance |-> max_ext, hold |-> 0,
          reason |-> "Late bus"]
    ELSE IF h_now < H - delta
    THEN [grant |-> FALSE, extend |-> 0, advance |-> 0, hold |-> 15,
          reason |-> "Early bus"]
    ELSE [grant |-> FALSE, extend |-> 0, advance |-> 0, hold |-> 0,
          reason |-> "Normal headway"]

tsp_policy(h_now, H, delta, max_ext, max_adv) ==
    IF h_now > H + delta
    THEN [grant |-> TRUE, extend |-> max_ext, advance |-> max_adv, hold |-> 0,
          reason |-> "Late bus"]
    ELSE IF h_now < H - delta
    THEN [grant |-> FALSE, extend |-> 0, advance |-> 0, hold |-> 15,
          reason |-> "Early bus"]
    ELSE [grant |-> FALSE, extend |-> 0, advance |-> 0, hold |-> 0,
          reason |-> "Normal headway"]

\* a cooldown test that forgets the last grant
can_grant_tsp_nocooldown(lgt, tls_id, current_time, cd) ==
    current_time >= cd

\* TSPController.can_grant_tsp
can_grant_tsp(lgt, tls_id, current_time, cd) ==
    LET last_time == Get(lgt, tls_id, 0)
    IN  (current_time - last_time) >= cd

\* TSPController.get_cycle_extensions
get_cycle_extensions(te, tls_id) == Get(te, tls_id, 0)

\* an extension that does not look at decision.grant
apply_tsp_to_phase_nogrant(current_green_remaining, current_cycle_extensions, d, min_green, budget) ==
    IF budget - current_cycle_extensions <= 0 THEN <<0, FALSE>>
    ELSE IF Min(d.extend, budget - current_cycle_extensions) <= 0 THEN <<0, FALSE>>
    ELSE <<Min(d.extend, budget - current_cycle_extensions), TRUE>>

\* an extension that ignores the remaining budget
apply_tsp_to_phase_nobudget(current_green_remaining, current_cycle_extensions, d, min_green, budget) ==
    IF ~d.grant THEN <<0, FALSE>>
    ELSE IF budget - current_cycle_extensions <= 0 THEN <<0, FALSE>>
    ELSE IF d.extend <= 0 THEN <<0, FALSE>>
    ELSE <<d.extend, TRUE>>

\* apply_tsp_to_phase: <<actual extension, granted>>
apply_tsp_to_phase(current_green_remaining, current_cycle_extensions, d, min_green, budget) ==
    IF ~d.grant THEN <<0, FALSE>>
    ELSE LET remaining_budget == budget - current_cycle_extensions
         IN  IF remaining_budget <= 0 THEN <<0, FALSE>>
             ELSE LET requested_extension == d.extend
                      actual_extension == Min(requested_extension, remaining_budget)
                  IN  IF actual_extension <= 0 THEN <<0, FALSE>>
                      ELSE <<actual_extension, TRUE>>

InitTspVars ==
    /\ last_grant_time = EmptyDict
    /\ total_extensions = EmptyDict
    /\ cycle_start_time = EmptyDict
    /\ now = 0
    /\ events = <<>>
    /\ can_grant = [called |-> FALSE, tls |-> "", t |-> 0, ret |-> FALSE]

\* TSPController() with the client's fixed cooldown and budget
InitTsp ==
    /\ entry = "tsp"
    /\ InitTspVars
    /\ cooldown \in Cooldowns
    /\ max_cycle_extension \in Budgets
    /\ tsp_args = [called |-> FALSE, h_now |-> 0, H |-> 0, delta |-> 0,
                   max_ext |-> 0, max_adv |-> 0]
    /\ decision = TSPDecision
    /\ PairIdle /\ compared = <<>>
    /\ PhaseIdle /\ OffsetsIdle
    /\ SimIdle
    /\ CorIdle

\* the client's clock (sim_time) advances by one second
TspClock ==
    /\ entry = "tsp"
    /\ now < MaxTime
    /\ now' = now + 1
    /\ UNCHANGED <<entry, beat, corVars, last_grant_time, total_extensions, cycle_start_time,
                   cooldown, max_cycle_extension, events, can_grant, policyVars, simVars>>

\* TSPController.reset_cycle(tls_id, current_time)
ResetCycle(tls_id) ==
    /\ entry = "tsp"
    /\ cycle_start_time' = Put(cycle_start_time, tls_id, now)
    /\ total_extensions' = Put(total_extensions, tls_id, 0)
    /\ UNCHANGED <<entry, beat, corVars, last_grant_time, cooldown, max_cycle_extension, now,
                   events, can_grant, policyVars, simVars>>

\* a client asks can_grant_tsp(tls_id, current_time, cooldown)
CanGrantTsp(tls_id) ==
    /\ entry = "tsp"
    /\ can_grant' = [called |-> TRUE, tls |-> tls_id, t |-> now,
                     ret |-> can_grant_tsp(last_grant_time, tls_id, now, cooldown)]
    /\ UNCHANGED <<entry, beat, corVars, last_grant_time, total_extensions, cycle_start_time,
                   cooldown, max_cycle_extension, now, events, policyVars, simVars>>

\* One grant attempt at one node, as in the body of the node loop of
\* apply_tsp_control: can_grant_tsp -> apply_tsp_to_phase -> record_grant.
\* headway and max_ext feed tsp_policy; phase_index and remaining are what
\* TraCI reports for the node.
GrantAttempt(tls_id, headway, max_ext, phase_index, remaining) ==
    /\ entry = "tsp"
    /\ Len(events) < MaxEvents
    /\ LET d == tsp_policy(headway, 360, 90, max_ext, 6)
       IN  /\ can_grant_tsp(last_grant_time, tls_id, now, cooldown)
           /\ IF d.grant
              THEN /\ phase_index = 0 /\ remaining > 0
                   /\ LET current_ext == get_cycle_extensions(total_extensions, tls_id)
                          r == apply_tsp_to_phase(remaining, current_ext, d, 10,
                                                  max_cycle_extension)
                          actual_ext == r[1]
                          granted == r[2]
                      IN  /\ granted /\ actual_ext > 0
                          \* record_grant(tls_id, sim_time, actual_ext)
                          /\ last_grant_time' = Put(last_grant_time, tls_id, now)
                          /\ total_extensions' =
                                Put(total_extensions, tls_id, current_ext + actual_ext)
                          /\ events' = Append(events,
                                [t |-> now, type |-> "TSP_EXTEND", node |-> tls_id,
                                 sec |-> actual_ext])
              ELSE /\ d.hold > 0
                   /\ events' = Append(events,
                         [t |-> now, type |-> "BUS_HOLD", node |-> tls_id,
                          sec |-> d.hold])
                   /\ UNCHANGED <<last_grant_time, total_extensions>>
    /\ UNCHANGED <<entry, beat, corVars, cycle_start_time, cooldown, max_cycle_extension, now,
                   can_grant, policyVars, simVars>>

NextTsp ==
    \/ TspClock
    \/ \E tls_id \in TlsIds : ResetCycle(tls_id)
    \/ \E tls_id \in TlsIds : CanGrantTsp(tls_id)
    \/ \E tls_id \in TlsIds, headway \in {240, 480}, max_ext \in {0, 8},
          phase_index \in {0, 1}, remaining \in {0, 5} :
          GrantAttempt(tls_id, headway, max_ext, phase_index, remaining)

SpecTsp == InitTsp /\ [][NextTsp]_vars

\* the grant protocol alone: the clock, reset_cycle and grant attempts (the
\* query CanGrantTsp changes nothing the protocol reads)
NextGrant ==
    \/ TspClock
    \/ \E tls_id \in TlsIds : ResetCycle(tls_id)
    \/ \E tls_id \in TlsIds, headway \in {240, 480}, max_ext \in {0, 8},
          phase_index \in {0, 1}, remaining \in {0, 5} :
          GrantAttempt(tls_id, headway, max_ext, phase_index, remaining)

SpecGrant == InitTsp /\ [][NextGrant]_vars

-----------------------------------------------------------------------------
(* apply_tsp_to_phase as a pure function: Init draws the arguments, the     *)
(* action applies the function.                                            *)

\* decisions a caller can pass: a TSPDecision is a plain dataclass
PhaseDecisions ==
    [grant : BOOLEAN, extend : {-2, 0, 6, 8, 12}, advance : {6}, hold : {0},
     reason : {""}]

InitPhase ==
    /\ entry = "apply_tsp_to_phase"
    /\ InitTspVars
    /\ cooldown = 60
    /\ max_cycle_extension = 10
    /\ tsp_args = [called |-> FALSE, h_now |-> 0, H |-> 0, delta |-> 0,
                   max_ext |-> 0, max_adv |-> 0]
    /\ decision = TSPDecision
    /\ PairIdle /\ compared = <<>>
    /\ phase_call \in [called : {FALSE}, current_green_remaining : {0, 5},
                       current_cycle_extensions : {0, 4, 8, 10, 12},
                       decision : PhaseDecisions, min_green : {10},
                       max_cycle_extension : {6, 10}, ret : {<<0, FALSE>>}]
    /\ OffsetsIdle
    /\ SimIdle
    /\ CorIdle

ApplyTspToPhase ==
    /\ entry = "apply_tsp_to_phase"
    /\ ~phase_call.called
    /\ phase_call' =
          [phase_call EXCEPT
             !.called = TRUE,
             !.ret = apply_tsp_to_phase(phase_call.current_green_remaining,
                                        phase_call.current_cycle_extensions,
                                        phase_call.decision,
                                        phase_call.min_green,
                                        phase_call.max_cycle_extension)]
    /\ UNCHANGED <<entry, corVars, tspVars, simVars, tsp_args, decision, offsets_call, pair, compared>>

NextPhase == ApplyTspToPhase

SpecPhase == InitPhase /\ [][NextPhase]_vars

-----------------------------------------------------------------------------
(* tsp_policy as a pure function: Init draws the arguments, the action      *)
(* applies the function.                                                   *)

PolicyHeadways == {240, 269, 270, 271, 360, 449, 450, 451, 480, 500}

InitPolicy ==
    /\ entry = "tsp_policy"
    /\ InitTspVars
    /\ cooldown = 60
    /\ max_cycle_extension = 10
    /\ tsp_args \in [called : {FALSE}, h_now : PolicyHeadways, H : {300, 360},
                     delta : {0, 60, 90}, max_ext : {0, 8, 12}, max_adv : {6, 8}]
    /\ decision = TSPDecision
    /\ PairIdle /\ compared = <<>>
    /\ PhaseIdle /\ OffsetsIdle
    /\ SimIdle
    /\ CorIdle

TspPolicy ==
    /\ entry = "tsp_policy"
    /\ ~tsp_args.called
    /\ decision' = tsp_policy(tsp_args.h_now, tsp_args.H, tsp_args.delta,
                              tsp_args.max_ext, tsp_args.max_adv)
    /\ tsp_args' = [tsp_args EXCEPT !.called = TRUE]
    /\ UNCHANGED <<entry, corVars, tspVars, simVars, phase_call, offsets_call, pair, compared>>

NextPolicy == TspPolicy

SpecPolicy == InitPolicy /\ [][NextPolicy]_vars

-----------------------------------------------------------------------------
(* offsets.py: compute_offsets and validate_offsets.                        *)
(*                                                                         *)
(* compute_offsets works on Python floats (IEEE-754 binary64, every        *)
(* operation rounded to nearest, ties to even).  A non-negative float is   *)
(* [m, e], value m * 2^e, with m = 0 or 2^52 <= m < 2^53.  A mantissa is   *)
(* the pair <<hi, lo>> = hi * 2^27 + lo, so that every intermediate value  *)
(* stays inside 32-bit integers.                                           *)

Dbl(a) == <<2 * a[1] + (2 * a[2]) \div 134217728, (2 * a[2]) % 134217728>>
Halve(a) == <<a[1] \div 2, (a[1] % 2) * 67108864 + a[2] \div 2>>
Less(a, b) == a[1] < b[1] \/ (a[1] = b[1] /\ a[2] < b[2])
Plus(a, b) == <<a[1] + b[1] + (a[2] + b[2]) \div 134217728, (a[2] + b[2]) % 134217728>>
Minus(a, b) == IF a[2] >= b[2] THEN <<a[1] - b[1], a[2] - b[2]>> ELSE <<a[1] - b[1] - 1, a[2] + 134217728 - b[2]>>

\* a shifted right by n bits; the flag tells whether a one was shifted out
ShiftRight(a, n) ==
    IF n <= 0 THEN <<a, FALSE>>
    ELSE IF n < 27
    THEN <<(<<a[1] \div 2^n, (a[1] % 2^n) * 2^(27 - n) + a[2] \div 2^n>>),
           a[2] % 2^n # 0>>
    ELSE IF n < 57
    THEN <<(<<0, a[1] \div 2^(n - 27)>>), a[2] # 0 \/ a[1] % 2^(n - 27) # 0>>
    ELSE <<(<<0, 0>>), a # <<0, 0>>>>

\* the float nearest to (a + guard/2 + a little if sticky) * 2^e, a >= 2^52
RECURSIVE RoundNearestEven(_, _, _, _)
RoundNearestEven(a, e, guard, sticky) ==
    IF a[1] >= 67108864
    THEN RoundNearestEven(Halve(a), e + 1, a[2] % 2, sticky \/ guard = 1)
    ELSE LET up == guard = 1 /\ (sticky \/ a[2] % 2 = 1)
             r == IF up THEN Plus(a, <<0, 1>>) ELSE a
         IN  IF r[1] >= 67108864 THEN [m |-> Halve(r), e |-> e + 1]
             ELSE [m |-> r, e |-> e]

\* float(n) of an integer 0 <= n < 2^27: exact
Float(n) ==
    IF n = 0 THEN [m |-> <<0, 0>>, e |-> 0]
    ELSE LET len == CHOOSE b \in 1..27 : 2^(b - 1) <= n /\ n < 2^b
         IN  [m |-> IF len = 27 THEN <<n \div 2, (n % 2) * 67108864>>
                    ELSE <<n * 2^(26 - len), 0>>,
              e |-> len - 53]

\* n more bits of the long division by d, from and to <<quotient, remainder>>
RECURSIVE DivBits(_, _, _)
DivBits(qr, n, d) ==
    IF n = 0 THEN qr
    ELSE IF Less(Dbl(qr[2]), d)
    THEN DivBits(<<Dbl(qr[1]), Dbl(qr[2])>>, n - 1, d)
    ELSE DivBits(<<Plus(Dbl(qr[1]), <<0, 1>>), Minus(Dbl(qr[2]), d)>>, n - 1, d)

\* x / y for floats x >= 0, y > 0
FloatDiv(x, y) ==
    IF x.m = <<0, 0>> THEN x
    ELSE LET n  == IF Less(x.m, y.m) THEN 54 ELSE 53
             q0 == IF Less(x.m, y.m) THEN <<(<<0, 0>>), x.m>>
                   ELSE <<(<<0, 1>>), Minus(x.m, y.m)>>
             q1 == DivBits(q0, 18, y.m)
             q2 == DivBits(q1, 18, y.m)
             q3 == DivBits(q2, n - 36, y.m)
         IN  RoundNearestEven(q3[1], x.e - y.e - n, 0, q3[2] # <<0, 0>>)

\* x + y for floats x, y >= 0
FloatAdd(x, y) ==
    IF x.m = <<0, 0>> THEN y
    ELSE IF y.m = <<0, 0>> THEN x
    ELSE LET hi == IF x.e >= y.e THEN x ELSE y
             lo == IF x.e >= y.e THEN y ELSE x
             sh == ShiftRight(Dbl(Dbl(lo.m)), hi.e - lo.e)
         IN  RoundNearestEven(Plus(Dbl(Dbl(hi.m)), sh[1]), hi.e - 2, 0, sh[2])

\* int(x % cycle_s) for a float x >= 0 and an integer cycle_s > 0: the float
\* remainder is exact, so its integer part is the integer part of x modulo
\* cycle_s
IntMod(x, cycle_s) ==
    LET w == ShiftRight(x.m, 0 - x.e)[1]
    IN  (w[1] * 134217728 + w[2]) % cycle_s

\* an offset list that skips the reduction modulo the cycle
compute_offsets_nomod(distances_m, cycle_s, v_prog_kmh) ==
    [i \in 1..(Len(distances_m) + 1) |->
        IF i = 1 THEN 0
        ELSE LET RECURSIVE total(_)
                 total(j) == IF j = 0 THEN 0 ELSE total(j - 1) + distances_m[j]
             IN  (total(i - 1) * 36) \div (10 * v_prog_kmh)]

\* compute_offsets
compute_offsets(distances_m, cycle_s, v_prog_kmh) ==
    IF distances_m = <<>> THEN <<0>>
    ELSE LET v_ms == FloatDiv(Float(v_prog_kmh), FloatDiv(Float(36), Float(10)))
             RECURSIVE loop(_, _, _)
             loop(i, cumulative_travel, offs) ==
                 IF i > Len(distances_m) THEN offs
                 ELSE LET travel_time == FloatDiv(Float(distances_m[i]), v_ms)
                          cum == FloatAdd(cumulative_travel, travel_time)
                      IN  loop(i + 1, cum, Append(offs, IntMod(cum, cycle_s)))
         IN  loop(1, Float(0), <<0>>)

\* validate_offsets
validate_offsets(offs, cycle_s) ==
    IF offs = <<>> THEN FALSE
    ELSE IF offs[1] # 0 THEN FALSE
    ELSE IF \E i \in 1..Len(offs) : offs[i] < 0 \/ offs[i] >= cycle_s THEN FALSE
    ELSE TRUE

\* distance lists, cycles and speeds the functions are applied to
OffsetDistances ==
    {<<>>, <<300>>, <<500>>, <<300, 280>>, <<0, 500>>, <<75, 300>>,
     <<950, 300>>, <<1000, 1000, 1000>>}

InitOffsets ==
    /\ entry = "offsets"
    /\ InitTspVars
    /\ cooldown = 60
    /\ max_cycle_extension = 10
    /\ tsp_args = [called |-> FALSE, h_now |-> 0, H |-> 0, delta |-> 0,
                   max_ext |-> 0, max_adv |-> 0]
    /\ decision = TSPDecision
    /\ PairIdle /\ compared = <<>>
    /\ PhaseIdle
    /\ offsets_call \in [called : {FALSE}, validated : {FALSE},
                         distances_m : OffsetDistances,
                         cycle_s : {30, 90, 180}, v_prog_kmh : {20, 25, 30, 40, 80},
                         ret : {<<>>}, valid : {FALSE}]
    /\ SimIdle
    /\ CorIdle

\* offsets = compute_offsets(distances, cycle, speed)
ComputeOffsets ==
    /\ entry = "offsets"
    /\ ~offsets_call.called
    /\ offsets_call' =
          [offsets_call EXCEPT
             !.called = TRUE,
             !.ret = compute_offsets(offsets_call.distances_m,
                                     offsets_call.cycle_s,
                                     offsets_call.v_prog_kmh)]
    /\ UNCHANGED <<entry, corVars, tspVars, simVars, tsp_args, decision, phase_call, pair, compared>>

\* validate_offsets(offsets, cycle)
ValidateOffsets ==
    /\ entry = "offsets"
    /\ offsets_call.called /\ ~offsets_call.validated
    /\ offsets_call' =
          [offsets_call EXCEPT
             !.validated = TRUE,
             !.valid = validate_offsets(offsets_call.ret, offsets_call.cycle_s)]
    /\ UNCHANGED <<entry, corVars, tspVars, simVars, tsp_args, decision, phase_call, pair, compared>>

NextOffsets == ComputeOffsets \/ ValidateOffsets

SpecOffsets == InitOffsets /\ [][NextOffsets]_vars

-----------------------------------------------------------------------------
(* app_glide.py: run_sim, request and derived parameters *)

\* Bound of the model: a line's departure list stops growing at this length
MaxSched == 12

\* BusLineSpec(id, headway_sec, jitter_sec, dwell_sec, phase_offset_sec)
BusLineSpec(id, headway_sec, jitter_sec, dwell_sec, phase_offset_sec) ==
    [id |-> id, headway_sec |-> headway_sec, jitter_sec |-> jitter_sec,
     dwell_sec |-> dwell_sec, phase_offset_sec |-> phase_offset_sec]

\* the built-in six-line preset
DefaultLines ==
    << BusLineSpec("R61", 240, 30, 25, 0),
       BusLineSpec("235", 300, 35, 20, 60),
       BusLineSpec("236", 300, 35, 22, 120),
       BusLineSpec("251", 360, 40, 25, 180),
       BusLineSpec("252", 420, 45, 25, 210),
       BusLineSpec("644", 480, 50, 28, 240) >>

\* bus_lines values of the requests explored: absent, one dense line with a
\* long dwell, and one line whose headway is 0 (BusLineSpec has no bounds)
BusLineChoices ==
    { <<>>,
      << << BusLineSpec("A", 20, 0, 60, 0) >> >>,
      << << BusLineSpec("Z", 0, 0, 20, 0) >> >> }

\* SimRequest values explored (all pass the Field validation); an optional
\* field is <<>> when absent and <<value>> when present
Requests ==
    [mode : {"fixed", "glide", "glide_tsp"}, steps : {60, 90}, cycle : {40, 180},
     v_prog_kmh : {72}, cars_per_hour : {<<>>}, dwell_sec : {20},
     simulate_bunching : {TRUE}, bus_lines : BusLineChoices]

\* one request beyond the 1200-step cap
LongRequest ==
    [mode |-> "glide", steps |-> 1201, cycle |-> 30,
     v_prog_kmh |-> 72, cars_per_hour |-> <<>>, dwell_sec |-> 20,
     simulate_bunching |-> TRUE,
     bus_lines |-> << << BusLineSpec("L", 3600, 0, 20, 0) >> >>]

Seeds == {1, 2}

\* the runs explored: <<request, seed>>
Runs == Requests \X Seeds

\* C = req.cycle; G = int(0.6 * C); Y = 6
C == req.cycle
\* a green width rounded to the nearest second
G_round == (6 * C + 5) \div 10
G == (3 * C) \div 5
Y == 6
\* STEPS = int(min(req.steps, 1200))
STEPS == Min(req.steps, 1200)
\* V = req.v_prog_kmh / 3.6, in mm per tick
V == (req.v_prog_kmh * 2500) \div 9
\* V_BUS = V * 0.9
V_BUS == (V * 9) \div 10

nodes == <<"J1", "J2", "J3", "J4", "J5">>
stoplines == [nid \in {"J1", "J2", "J3", "J4", "J5"} |->
                 CASE nid = "J1" -> -600000 [] nid = "J2" -> -300000
                   [] nid = "J3" -> 0 [] nid = "J4" -> 300000 [] nid = "J5" -> 600000]

\* simple_compute_offsets([300, 300, 300, 300], C, v_prog_kmh):
\* offsets[J(i+2)] = int(acc % cycle), acc = (i+1) * 300 / (v_prog_kmh / 3.6)
simple_compute_offsets(cycle, speed_kmh) ==
    [nid \in {"J1", "J2", "J3", "J4", "J5"} |->
        LET i == CASE nid = "J1" -> 0 [] nid = "J2" -> 1 [] nid = "J3" -> 2
                   [] nid = "J4" -> 3 [] nid = "J5" -> 4
        IN  ((i * 1080) \div speed_kmh) % cycle]

\* offsets that follow the geometry in every mode
offsets_unforced == simple_compute_offsets(C, req.v_prog_kmh)

\* offsets that are all 0 in glide_tsp mode as well
offsets_tsp_fixed ==
    IF req.mode \in {"fixed", "glide_tsp"}
    THEN [nid \in {"J1", "J2", "J3", "J4", "J5"} |-> 0]
    ELSE simple_compute_offsets(C, req.v_prog_kmh)

\* offsets: all 0 in fixed mode, computed otherwise
offsets ==
    IF req.mode = "fixed"
    THEN [nid \in {"J1", "J2", "J3", "J4", "J5"} |-> 0]
    ELSE simple_compute_offsets(C, req.v_prog_kmh)

target_vph == IF req.cars_per_hour # <<>> THEN req.cars_per_hour[1] ELSE 1700

\* (G * 3600.0 / C) / max(1, target_vph), in ms
mu_theory == (G * 3600 * 1000) \div (C * Max(1, target_vph))
mu_min == IF target_vph >= 2000 THEN 900 ELSE IF target_vph >= 1800 THEN 1100
          ELSE IF target_vph <= 800 THEN 2800 ELSE 1600
mu_max == IF target_vph >= 2000 THEN 2200 ELSE IF target_vph >= 1800 THEN 2500
          ELSE IF target_vph <= 800 THEN 4600 ELSE 3200
\* np.clip(x, lo, hi)
clip(x, lo, hi) == IF x < lo THEN lo ELSE IF x > hi THEN hi ELSE x
mu == clip(mu_theory, mu_min, mu_max)

\* lines = req.bus_lines or [defaults]
lines == IF req.bus_lines = <<>> \/ req.bus_lines[1] = <<>>
         THEN DefaultLines ELSE req.bus_lines[1]

bus_stops == <<-450000, 450000>>
stop_name == [sx \in {-450000, 450000} |-> IF sx = -450000 THEN "S1" ELSE "S2"]
STOP_BERTHS == 2
COINCIDENCE_WINDOW == 18
PRESTOP_HOLD == 16000
STOPLINE_BUFFER == 4500
X_MIN == -800000
X_MAX == 800000

-----------------------------------------------------------------------------
(* pseudorandom sources: a seed selects the stream of uniform draws of the  *)
(* random module (permille of the unit interval) and the stream of         *)
(* exp(sigma * z) factors of numpy's lognormal (permille)                  *)

RandomStream(seed) ==
    IF seed = 1 THEN <<40>> ELSE IF seed = 2 THEN <<480, 820>>
    ELSE IF seed \in {4, 5} THEN <<960>> ELSE <<500>>

NormalStream(seed) ==
    IF seed = 1 THEN <<3750, 800>> ELSE IF seed = 2 THEN <<3750, 2000, 3750>>
    ELSE IF seed = 4 THEN <<1440>> ELSE IF seed = 5 THEN <<1420>> ELSE <<3750>>

\* next value of random.random(), permille
U(r) == RandomStream(r.seed)[(r.n % Len(RandomStream(r.seed))) + 1]
\* the random module after one draw
Adv(r) == [r EXCEPT !.n = (r.n + 1) % Len(RandomStream(r.seed))]
\* random.uniform(a, b) for the draw u
uniform(a, b, u) == a + ((b - a) * u) \div 1000

\* sample_headway(): clip(lognormal(log(mu), sigma), 0.6, 6.0), in ms
sample_headway(r) ==
    clip((mu * NormalStream(r.seed)[(r.m % Len(NormalStream(r.seed))) + 1]) \div 1000,
         600, 6000)
\* numpy.random after one draw
AdvNp(r) == [r EXCEPT !.m = (r.m + 1) % Len(NormalStream(r.seed))]

\* list.sort() on numbers: the element of rank i goes to position i
Sort(sq) ==
    LET n == Len(sq)
        Rank(i) == Cardinality({j \in 1..n : sq[j] < sq[i] \/ (sq[j] = sq[i] /\ j < i)}) + 1
    IN  [p \in 1..n |-> sq[CHOOSE i \in 1..n : Rank(i) = p]]

-----------------------------------------------------------------------------
(* run_sim: car demand and bus schedules *)

\* the platoon of up to 3 cars at the start of a green window
RECURSIVE Platoon(_, _, _, _, _)
Platoon(i, t_burst, t_end, r, acc) ==
    IF i = 3 THEN [times |-> acc, rng |-> r]
    ELSE IF t_burst < t_end /\ t_burst < STEPS * 1000
    THEN Platoon(i + 1, t_burst + uniform(350, 600, U(r)), t_end, Adv(r),
                 Append(acc, t_burst))
    ELSE Platoon(i + 1, t_burst, t_end, r, acc)

\* while t < t_end and t < STEPS: append(t + uniform(-0.10, 0.10)); t += sample_headway()
RECURSIVE RegularCars(_, _, _, _)
RegularCars(tt, t_end, r, acc) ==
    IF tt < t_end /\ tt < STEPS * 1000
    THEN RegularCars(tt + sample_headway(r), t_end, AdvNp(Adv(r)),
                     Append(acc, tt + uniform(-100, 100, U(r))))
    ELSE [times |-> acc, rng |-> r]

\* first departure of a line, in ms
FirstDeparture(L) ==
    Max(5000, Min(15000, 50 * STEPS)) + 1000 * (L.phase_offset_sec % Max(1, L.headway_sec))

\* run_sim is entered with the request and the seed of `run`
InitRun(run) ==
    /\ entry = "run_sim"
    /\ InitTspVars /\ cooldown = 60 /\ max_cycle_extension = 10
    /\ tsp_args = [called |-> FALSE, h_now |-> 0, H |-> 0, delta |-> 0,
                   max_ext |-> 0, max_adv |-> 0]
    /\ decision = TSPDecision
    /\ PairIdle /\ compared = <<>>
    /\ PhaseIdle /\ OffsetsIdle
    /\ CorIdle
    /\ req = run[1] /\ rng = [seed |-> run[2], n |-> 0, m |-> 0]
    /\ pc = "demand" /\ beat = 0
    /\ k = 0 /\ car_depart_times = <<>> /\ li = 0 /\ t_bus = 0 /\ times = <<>>
    /\ schedule = EmptyDict
    /\ stop_occupancy = EmptyDict /\ stop_release_time = EmptyDict
    /\ last_arrival_time = EmptyDict /\ monitor = <<>>
    /\ car_exited = 0 /\ car_zero_stop = 0 /\ car_delay_sum = 0
    /\ car_stops_sum = 0 /\ car_travel_sum = 0 /\ car_exit_ts = <<>>
    /\ bus_delay_line = EmptyDict /\ arrived = 0
    /\ t = 0 /\ vehicles = <<>> /\ moved = <<>> /\ vi = 0 /\ nv = <<>>
    /\ out_count = 0 /\ car_i = 0 /\ bus_spawn_index = EmptyDict
    /\ frames = <<>> /\ kpis = <<>>

InitSim == \E run \in Runs : InitRun(run)

\* the run of the request beyond the cap
InitSimLong == InitRun(<<LongRequest, 3>>)

\* one iteration of the car-demand loop (one signal cycle k)
DemandWindow ==
    /\ entry = "run_sim" /\ pc = "demand"
    /\ LET t0 == (k * C - offsets["J1"]) * 1000
           t_end == t0 + G * 1000
           t1 == Max(0, t0) + uniform(250, 900, U(rng))
           r1 == Adv(rng)
           P == IF target_vph >= 1800
                THEN Platoon(0, Max(0, t0) + uniform(200, 600, U(r1)), t_end, Adv(r1), <<>>)
                ELSE [times |-> <<>>, rng |-> r1]
           R == RegularCars(t1, t_end, P.rng, <<>>)
       IN  /\ ~(t0 > STEPS * 1000)
           /\ car_depart_times' = car_depart_times \o P.times \o R.times
           /\ rng' = R.rng
           /\ k' = k + 1
    /\ beat' = 1 - beat
    /\ UNCHANGED <<entry, corVars, tspVars, policyVars, req, pc, li, t_bus, times, schedule,
                   stopVars, kpiVars, loopVars>>

\* the car-demand loop breaks; car_depart_times.sort(); first bus line
DemandDone ==
    /\ entry = "run_sim" /\ pc = "demand"
    /\ (k * C - offsets["J1"]) * 1000 > STEPS * 1000
    /\ car_depart_times' = Sort(car_depart_times)
    /\ pc' = "sched"
    /\ li' = 1 /\ times' = <<>> /\ t_bus' = FirstDeparture(lines[1])
    /\ beat' = 1 - beat
    /\ UNCHANGED <<entry, corVars, tspVars, policyVars, req, rng, k, schedule,
                   stopVars, kpiVars, loopVars>>

\* times.append(x), with the list capped at MaxSched entries
AppendTime(sq, x) == IF Len(sq) < MaxSched THEN Append(sq, x) ELSE sq

\* one iteration of `while t_bus < STEPS` for line li
SchedStep ==
    /\ entry = "run_sim" /\ pc = "sched"
    /\ t_bus < STEPS * 1000
    /\ LET L == lines[li]
           times1 == AppendTime(times, t_bus)
           bunch == req.simulate_bunching /\ U(rng) < 250
           r1 == IF req.simulate_bunching THEN Adv(rng) ELSE rng
           g == uniform(300 * L.headway_sec, 550 * L.headway_sec, U(r1))
           r2 == IF bunch THEN Adv(r1) ELSE r1
           times2 == IF bunch /\ t_bus + g < STEPS * 1000
                     THEN AppendTime(times1, t_bus + g) ELSE times1
           jitter == uniform(-1000 * L.jitter_sec, 1000 * L.jitter_sec, U(r2))
       IN  /\ times' = times2
           /\ rng' = Adv(r2)
           /\ t_bus' = Max(0, t_bus + 1000 * L.headway_sec + jitter)
    /\ beat' = 1 - beat
    /\ UNCHANGED <<entry, corVars, tspVars, policyVars, req, pc, k, car_depart_times, li,
                   schedule, stopVars, kpiVars, loopVars>>

\* the dicts built between the schedules and the main loop
InitialMonitor ==
    [lines |-> [lid \in {lines[i].id : i \in 1..Len(lines)} |->
                  [scheduled_headway_sec |->
                      (CHOOSE L \in {lines[i] : i \in 1..Len(lines)} : L.id = lid).headway_sec,
                   arrivals |-> 0, holds |-> 0, tsp_extends |-> 0,
                   queue_holds |-> 0, arr_times |-> <<>>]],
     stops |-> [nm \in {"S1", "S2"} |->
                  [arrivals |-> 0, sum_dwell |-> 0, queue_max |-> 0, queue_now |-> 0]]]

\* the loop of line li ends: times.sort(); schedule[L.id] = times; next line,
\* or the state set up before the main loop
SchedNextLine ==
    /\ entry = "run_sim" /\ pc = "sched"
    /\ ~(t_bus < STEPS * 1000)
    /\ schedule' = Put(schedule, lines[li].id, Sort(times))
    /\ IF li < Len(lines)
       THEN /\ li' = li + 1 /\ times' = <<>>
            /\ t_bus' = FirstDeparture(lines[li + 1])
            /\ UNCHANGED <<pc, stopVars, bus_spawn_index>>
       ELSE /\ pc' = "tick"
            /\ UNCHANGED <<li, times, t_bus>>
            /\ monitor' = InitialMonitor
            /\ stop_occupancy' = [sx \in {-450000, 450000} |-> <<>>]
            /\ stop_release_time' = [sx \in {-450000, 450000} |-> <<>>]
            /\ last_arrival_time' = [sx \in {-450000, 450000} |-> <<>>]
            /\ bus_spawn_index' = [lid \in {lines[i].id : i \in 1..Len(lines)} |-> 0]
    /\ beat' = 1 - beat
    /\ UNCHANGED <<entry, corVars, tspVars, policyVars, req, rng, k, car_depart_times,
                   kpiVars, t, vehicles, moved, vi, nv, out_count, car_i, frames, kpis>>

-----------------------------------------------------------------------------
(* run_sim: signals and the per-vehicle update *)

\* a phase function whose green lasts one tick longer
ew_state_late(nid, t_int) ==
    LET tau == (t_int + offsets[nid]) % C
    IN  IF tau <= G THEN "G" ELSE IF tau < G + Y THEN "y" ELSE "r"

\* ew_state(nid, t_int)
ew_state(nid, t_int) ==
    LET tau == (t_int + offsets[nid]) % C
    IN  IF tau < G THEN "G" ELSE IF tau < G + Y THEN "y" ELSE "r"

\* a green_now that reports the last green tick of a node as not green
green_now_short(t_int) ==
    [nid \in {"J1", "J2", "J3", "J4", "J5"} |-> (t_int + offsets[nid]) % C < G - 1]

\* signals / green_now of tick t_int
green_now(t_int) == [nid \in {"J1", "J2", "J3", "J4", "J5"} |-> ew_state(nid, t_int) = "G"]

\* next_stopline_x(x_now): the stop lines strictly more than 0.1 ahead
StoplinesAhead(x_now) == {nid \in DOMAIN stoplines : stoplines[nid] > x_now + 100}

\* list.index(x)
IndexOf(sq, x) == CHOOSE i \in 1..Len(sq) : sq[i] = x /\ \A j \in 1..(i - 1) : sq[j] # x

\* list.pop(i)
PopAt(sq, i) == SubSeq(sq, 1, i - 1) \o SubSeq(sq, i + 1, Len(sq))

InSeq(sq, x) == \E i \in 1..Len(sq) : sq[i] = x

\* a berth test without the coincidence window
StopDenies_nowindow(occ, last, t_int) == Len(occ) >= STOP_BERTHS

\* a berth test that lets a bus in when the stop is exactly full
StopDenies_offbyone(occ, last, t_int) ==
    \/ Len(occ) > STOP_BERTHS
    \/ (last # <<>> /\ (t_int - last[1]) <= COINCIDENCE_WINDOW)

\* an admission test that does not look at the number of occupants
StopDenies_anyload(occ, last, t_int) ==
    last # <<>> /\ (t_int - last[1]) <= COINCIDENCE_WINDOW

\* the stop is full, or a bus was admitted within the coincidence window
StopDenies(occ, last, t_int) ==
    \/ Len(occ) >= STOP_BERTHS
    \/ (last # <<>> /\ (t_int - last[1]) <= COINCIDENCE_WINDOW)

\* dwell of an admitted bus: the line's own dwell if bus_lines was given
dwell_cfg(vh) ==
    IF req.bus_lines # <<>> /\ \E i \in 1..Len(lines) : lines[i].id = vh.line
    THEN lines[CHOOSE i \in 1..Len(lines) :
                  lines[i].id = vh.line /\ \A j \in 1..(i - 1) : lines[j].id # vh.line].dwell_sec
    ELSE req.dwell_sec

\* a final move that flags the vehicle as stopped whenever the stop line
\* shortened its move
StoplineMove_clamped(vh, x, x_try, gn) ==
    LET ahead == StoplinesAhead(x)
        nid == CHOOSE n \in ahead : \A o \in ahead : stoplines[n] <= stoplines[o]
        x_new == IF ahead # {} /\ ~gn[nid] /\ x < stoplines[nid]
                 THEN Min(x_try, stoplines[nid] - STOPLINE_BUFFER)
                 ELSE x_try
    IN  [vh EXCEPT !.x = x_new, !.stopped = (x_new # x_try), !.stopped_at_station = FALSE]

\* red/yellow stop-line limit and the final move (lines 315-325)
StoplineMove(vh, x, x_try, gn) ==
    LET ahead == StoplinesAhead(x)
        nid == CHOOSE n \in ahead : \A o \in ahead : stoplines[n] <= stoplines[o]
        x_new == IF ahead # {} /\ ~gn[nid] /\ x < stoplines[nid]
                 THEN Min(x_try, stoplines[nid] - STOPLINE_BUFFER)
                 ELSE x_try
    IN  [vh EXCEPT !.x = x_new, !.stopped = (x_new = x), !.stopped_at_station = FALSE]

\* a bus whose move crosses stop sx is held before it (lines 277-282)
QueueHold(vh, sx, S) ==
    [v |-> [vh EXCEPT !.x = sx - PRESTOP_HOLD, !.stopped = TRUE, !.queueing = TRUE],
     occ |-> S.occ, rel |-> S.rel, last |-> S.last,
     mon |-> [S.mon EXCEPT !.lines[vh.line].queue_holds = @ + 1]]

\* a bus whose move crosses stop sx is admitted (lines 284-313)
Admit(vh, sx, t_int, S) ==
    LET until == t_int + dwell_cfg(vh)
        occ1 == Append(S.occ[sx], vh.id)
        q_now == Max(0, Len(occ1) - STOP_BERTHS)
    IN  [v |-> [vh EXCEPT !.dwell_until = <<until>>, !.at_stop = <<sx>>,
                          !.x = sx - 100, !.stopped = TRUE,
                          !.stopped_at_station = TRUE, !.queueing = FALSE],
         occ |-> [S.occ EXCEPT ![sx] = occ1],
         rel |-> [S.rel EXCEPT ![sx] = Append(@, until)],
         last |-> [S.last EXCEPT ![sx] = <<t_int>>],
         mon |-> [S.mon EXCEPT
                    !.stops[stop_name[sx]] =
                        [arrivals |-> @.arrivals + 1,
                         sum_dwell |-> @.sum_dwell + (until - t_int),
                         queue_now |-> q_now,
                         queue_max |-> Max(@.queue_max, q_now)],
                    !.lines[vh.line].arrivals = @ + 1,
                    !.lines[vh.line].arr_times = Append(@, t_int)]]

\* a stop check that looks at the first stop only
StopsCrossed_first(x, x_try) == {i \in {1} : x < bus_stops[i] /\ bus_stops[i] <= x_try}

\* the stops a move from x to x_try crosses (x < sx <= x_try)
StopsCrossed(x, x_try) == {i \in 1..Len(bus_stops) : x < bus_stops[i] /\ bus_stops[i] <= x_try}

\* the part of update_one after the dwell branch: stop check, else stop line
MoveOn(vh, x, x_try, t_int, gn, S) ==
    IF vh.kind = "bus" /\ StopsCrossed(x, x_try) # {}
    THEN LET i == CHOOSE a \in StopsCrossed(x, x_try) : \A b \in StopsCrossed(x, x_try) : a <= b
             sx == bus_stops[i]
         IN  IF StopDenies(S.occ[sx], S.last[sx], t_int)
             THEN QueueHold(vh, sx, S)
             ELSE Admit(vh, sx, t_int, S)
    ELSE [v |-> StoplineMove(vh, x, x_try, gn),
          occ |-> S.occ, rel |-> S.rel, last |-> S.last, mon |-> S.mon]

\* a release that leaves the bus in the occupant list of its stop
Release_keep(vh, S) ==
    LET sx0 == vh.at_stop[1]
    IN  [v |-> [vh EXCEPT !.served_stops = Append(@, sx0), !.dwell_until = <<>>,
                          !.stopped_at_station = FALSE, !.at_stop = <<>>,
                          !.x = Max(vh.x, sx0 + 200)],
         occ |-> S.occ, rel |-> S.rel, last |-> S.last, mon |-> S.mon]

\* a dwelling bus whose dwell is over leaves its stop (lines 253-267)
Release(vh, S) ==
    LET sx0 == vh.at_stop[1]
        has == InSeq(S.occ[sx0], vh.id)
        i_rm == IndexOf(S.occ[sx0], vh.id)
    IN  [v |-> [vh EXCEPT !.served_stops = Append(@, sx0), !.dwell_until = <<>>,
                          !.stopped_at_station = FALSE, !.at_stop = <<>>,
                          !.x = Max(vh.x, sx0 + 200)],
         occ |-> IF has THEN [S.occ EXCEPT ![sx0] = PopAt(@, i_rm)] ELSE S.occ,
         rel |-> IF has THEN [S.rel EXCEPT ![sx0] = PopAt(@, i_rm)] ELSE S.rel,
         last |-> S.last, mon |-> S.mon]

\* a release that does not nudge the bus past the stop it leaves
update_one_nonudge(vh, t_int, gn, S) ==
    IF vh.kind = "bus" /\ vh.dwell_until # <<>>
    THEN IF t_int < vh.dwell_until[1]
         THEN [v |-> [vh EXCEPT !.stopped = TRUE, !.stopped_at_station = TRUE],
               occ |-> S.occ, rel |-> S.rel, last |-> S.last, mon |-> S.mon]
         ELSE LET R == Release(vh, S)
              IN  MoveOn([R.v EXCEPT !.x = vh.x], vh.x, vh.x + vh.v, t_int, gn,
                         [occ |-> R.occ, rel |-> R.rel, last |-> R.last, mon |-> R.mon])
    ELSE MoveOn(vh, vh.x, vh.x + vh.v, t_int, gn, S)

\* update_one(v, t_int, green_now); S are the stop tables and the monitor,
\* which update_one changes in place
update_one(vh, t_int, gn, S) ==
    LET x == vh.x
        x_try == vh.x + vh.v
    IN  IF vh.kind = "bus" /\ vh.dwell_until # <<>>
        THEN IF t_int < vh.dwell_until[1]
             THEN [v |-> [vh EXCEPT !.stopped = TRUE, !.stopped_at_station = TRUE],
                   occ |-> S.occ, rel |-> S.rel, last |-> S.last, mon |-> S.mon]
             ELSE IF vh.at_stop # <<>>
             THEN LET R == Release(vh, S)
                      sx0 == vh.at_stop[1]
                  IN  MoveOn(R.v, Max(x, sx0 + 200), Max(x_try, sx0 + 200), t_int, gn,
                             [occ |-> R.occ, rel |-> R.rel, last |-> R.last, mon |-> R.mon])
             ELSE MoveOn(vh, x, x_try, t_int, gn, S)
        ELSE MoveOn(vh, x, x_try, t_int, gn, S)

\* an accounting that counts every stopped tick of a car as a stop
Account_stops(vh) ==
    IF vh.kind = "car"
    THEN IF vh.stopped THEN [vh EXCEPT !.delay_s = @ + 1, !.stops_count = @ + 1] ELSE vh
    ELSE IF vh.stopped_at_station THEN [vh EXCEPT !.dwell_s = @ + 1]
    ELSE IF vh.queueing THEN [vh EXCEPT !.queue_hold_s = @ + 1]
    ELSE IF vh.stopped THEN [vh EXCEPT !.signal_delay_s = @ + 1]
    ELSE vh

\* per-second accounting after the update (lines 383-393)
Account(vh) ==
    IF vh.kind = "car"
    THEN IF vh.stopped THEN [vh EXCEPT !.delay_s = @ + 1] ELSE vh
    ELSE IF vh.stopped_at_station THEN [vh EXCEPT !.dwell_s = @ + 1]
    ELSE IF vh.queueing THEN [vh EXCEPT !.queue_hold_s = @ + 1]
    ELSE IF vh.stopped THEN [vh EXCEPT !.signal_delay_s = @ + 1]
    ELSE vh

\* an exit test without the 30 m clearance margin
Exits_nomargin(vh) == vh.x > X_MAX

\* the vehicle has left the corridor (x > X_MAX + 30)
Exits(vh) == vh.x > X_MAX + 30000

\* an exit branch without its `continue`: the vehicle is kept as well
Keep_nocontinue(mv, vh) == Append(mv, vh)

\* moved after one vehicle: a vehicle that left is not kept (`continue`)
Keep(mv, vh) == IF Exits(vh) THEN mv ELSE Append(mv, vh)

-----------------------------------------------------------------------------
(* run_sim: main loop *)

Vehicle(id, kind, line, x, vel, enter_t) ==
    [id |-> id, kind |-> kind, line |-> line, x |-> x, v |-> vel,
     stopped |-> FALSE, dwell_until |-> <<>>, served_stops |-> <<>>,
     at_stop |-> <<>>, stopped_at_station |-> FALSE, queueing |-> FALSE,
     enter_t |-> enter_t, signal_delay_s |-> 0, queue_hold_s |-> 0,
     dwell_s |-> 0, stops_count |-> 0, delay_s |-> 0]

CarId(i) == [kind |-> "car", line |-> "", idx |-> i]
BusId(lid, idx) == [kind |-> "bus", line |-> lid, idx |-> idx]

\* while car_i < len(car_depart_times) and car_depart_times[car_i] < t + 1.0
RECURSIVE SpawnCars(_, _, _)
SpawnCars(ci, r, acc) ==
    IF ci < Len(car_depart_times) /\ car_depart_times[ci + 1] < (t + 1) * 1000
    THEN LET dt == Max(0, car_depart_times[ci + 1] - 1000 * t)
             vel == (V * uniform(9200, 10500, U(Adv(r)))) \div 10000
         IN  SpawnCars(ci + 1, Adv(Adv(r)),
                       Append(acc, Vehicle(CarId(ci), "car", "", X_MIN + (V * dt) \div 1000,
                                           vel, 1000 * t + dt)))
    ELSE [cars |-> acc, car_i |-> ci, rng |-> r]

\* while idx < len(times) and times[idx] < t + 1.0, for one line
RECURSIVE SpawnLine(_, _, _)
SpawnLine(L, idx, acc) ==
    IF idx < Len(schedule[L.id]) /\ schedule[L.id][idx + 1] < (t + 1) * 1000
    THEN LET dt == Max(0, schedule[L.id][idx + 1] - 1000 * t)
         IN  SpawnLine(L, idx + 1,
                       Append(acc, Vehicle(BusId(L.id, idx), "bus", L.id,
                                           X_MIN + (V_BUS * dt) \div 1000, V_BUS,
                                           1000 * t + dt)))
    ELSE [buses |-> acc, idx |-> idx]

\* for L in lines: spawn the buses due in this tick
RECURSIVE SpawnBuses(_, _, _)
SpawnBuses(i, bsi, acc) ==
    IF i > Len(lines) THEN [buses |-> acc, bus_spawn_index |-> bsi]
    ELSE LET R == SpawnLine(lines[i], bsi[lines[i].id], <<>>)
         IN  SpawnBuses(i + 1, [bsi EXCEPT ![lines[i].id] = R.idx], acc \o R.buses)

IsBus(vh) == vh.kind = "bus"
IsCar(vh) == vh.kind = "car"

\* sorted(vehicles, key=lambda z: 0 if z["kind"] == "bus" else 1)
BusesFirst(sq) == SelectSeq(sq, IsBus) \o SelectSeq(sq, IsCar)

\* start of tick t: cars and buses due are appended, the update order is fixed
TickSpawn ==
    /\ entry = "run_sim" /\ pc = "tick"
    /\ t < STEPS
    /\ LET Cs == SpawnCars(car_i, rng, <<>>)
           Bs == SpawnBuses(1, bus_spawn_index, <<>>)
       IN  /\ vehicles' = BusesFirst(vehicles \o Cs.cars \o Bs.buses)
           /\ car_i' = Cs.car_i
           /\ rng' = Cs.rng
           /\ bus_spawn_index' = Bs.bus_spawn_index
    /\ moved' = <<>> /\ out_count' = 0 /\ vi' = 1
    /\ pc' = "update"
    /\ beat' = 1 - beat
    /\ UNCHANGED <<entry, corVars, tspVars, policyVars, req, genVars, stopVars, kpiVars,
                   t, nv, frames, kpis>>

\* bus_delay_line.setdefault(lid, zeros) and the exit totals of one bus
BusExit(bdl, vh) ==
    LET d == Get(bdl, vh.line, [signal |-> 0, queue |-> 0, dwell |-> 0, exited |-> 0])
    IN  Put(bdl, vh.line, [signal |-> d.signal + vh.signal_delay_s,
                           queue |-> d.queue + vh.queue_hold_s,
                           dwell |-> d.dwell + vh.dwell_s,
                           exited |-> d.exited + 1])

\* one iteration of `for v in sorted(vehicles, ...)`: update, account, exit
UpdateVehicle ==
    /\ entry = "run_sim" /\ pc = "update"
    /\ vi <= Len(vehicles)
    /\ LET R == update_one(vehicles[vi], t, green_now(t),
                           [occ |-> stop_occupancy, rel |-> stop_release_time,
                            last |-> last_arrival_time, mon |-> monitor])
           v1 == Account(R.v)
       IN  /\ stop_occupancy' = R.occ
           /\ stop_release_time' = R.rel
           /\ last_arrival_time' = R.last
           /\ monitor' = R.mon
           /\ nv' = <<v1>>
           /\ moved' = Keep(moved, v1)
           /\ IF Exits(v1)
              THEN /\ out_count' = out_count + 1
                   /\ IF v1.kind = "car"
                      THEN /\ car_exited' = car_exited + 1
                           /\ car_zero_stop' =
                                 IF v1.stops_count = 0 THEN car_zero_stop + 1
                                 ELSE car_zero_stop
                           /\ car_delay_sum' = car_delay_sum + v1.delay_s
                           /\ car_stops_sum' = car_stops_sum + v1.stops_count
                           /\ car_travel_sum' = car_travel_sum + (1000 * (t + 1) - v1.enter_t)
                           /\ car_exit_ts' = Append(car_exit_ts, t + 1)
                           /\ UNCHANGED bus_delay_line
                      ELSE /\ bus_delay_line' = BusExit(bus_delay_line, v1)
                           /\ UNCHANGED <<car_exited, car_zero_stop, car_delay_sum,
                                          car_stops_sum, car_travel_sum, car_exit_ts>>
              ELSE /\ UNCHANGED <<out_count, car_exited, car_zero_stop, car_delay_sum,
                                  car_stops_sum, car_travel_sum, car_exit_ts,
                                  bus_delay_line>>
    /\ vi' = vi + 1
    /\ beat' = 1 - beat
    /\ UNCHANGED <<entry, corVars, tspVars, policyVars, req, rng, pc, genVars, arrived,
                   t, vehicles, car_i, bus_spawn_index, frames, kpis>>

MAX_CARS_CAP == IF target_vph < 1200 THEN 220 ELSE IF target_vph < 1800 THEN 320 ELSE 500

\* the vehicles rendered in a frame (lines 420-440)
Render(vs) ==
    LET buses == SelectSeq(vs, IsBus)
        cars == SelectSeq(vs, IsCar)
        max_cars == Max(0, MAX_CARS_CAP - Len(buses))
        render_step == IF max_cars > 0 THEN Max(1, Len(cars) \div max_cars) ELSE 1
        Sampled(vh) == \E i \in 1..Len(cars) : cars[i] = vh /\ (i - 1) % render_step = 0
        shown == IF Len(cars) > max_cars /\ max_cars > 0
                 THEN SelectSeq(cars, Sampled) ELSE cars
        Row(vh) == [id |-> vh.id, x |-> vh.x, stopped |-> vh.stopped]
    IN  [i \in 1..(Len(buses) + Len(shown)) |->
            IF i <= Len(buses) THEN Row(buses[i]) ELSE Row(shown[i - Len(buses)])]

\* a frame whose t is one tick late
Frame_late(t_int, vs) ==
    [t |-> t_int + 1,
     signals |-> [i \in 1..Len(nodes) |-> ew_state(nodes[i], t_int)],
     vehicles |-> Render(vs)]

\* {"t": t, "signals": signals, "vehicles": render}
Frame(t_int, vs) ==
    [t |-> t_int,
     signals |-> [i \in 1..Len(nodes) |-> ew_state(nodes[i], t_int)],
     vehicles |-> Render(vs)]

\* end of tick t: vehicles = moved; arrived += out_count; the frame is appended
TickEnd ==
    /\ entry = "run_sim" /\ pc = "update"
    /\ vi > Len(vehicles)
    /\ vehicles' = moved
    /\ arrived' = arrived + out_count
    /\ frames' = Append(frames, Frame(t, moved))
    /\ t' = t + 1
    /\ pc' = "tick"
    /\ beat' = 1 - beat
    /\ UNCHANGED <<entry, corVars, tspVars, policyVars, req, rng, genVars, stopVars,
                   car_exited, car_zero_stop, car_delay_sum, car_stops_sum,
                   car_travel_sum, car_exit_ts, bus_delay_line,
                   moved, vi, nv, out_count, car_i, bus_spawn_index, kpis>>

\* a headway KPI that is 0 when fewer than 2 cars have exited
avg_headway_zero(ts) ==
    IF Len(ts) >= 2
    THEN <<(100 * (ts[Len(ts)] - ts[1])) \div (Len(ts) - 1)>>
    ELSE <<0>>

\* avg_headway = float(np.mean(np.diff(car_exit_ts))) if len(car_exit_ts) >= 2
\* else None, then round(avg_headway, 2) if it is not None: <<>> for None,
\* <<h>> for the float h / 100.  The differences sum to last - first; the
\* mean is the float nearest to total / count, and round() takes the nearest
\* two-decimal value of that float, the even one when the float is half way
avg_headway(ts) ==
    IF Len(ts) >= 2
    THEN LET total == ts[Len(ts)] - ts[1]
             count == Len(ts) - 1
             q  == (100 * total) \div count
             r  == (100 * total) % count
             x  == Float(total)
             y  == Float(count)
             n  == IF Less(x.m, y.m) THEN 54 ELSE 53
             q0 == IF Less(x.m, y.m) THEN <<(<<0, 0>>), x.m>>
                   ELSE <<(<<0, 1>>), Minus(x.m, y.m)>>
             q1 == DivBits(q0, 18, y.m)
             q2 == DivBits(q1, 18, y.m)
             q3 == DivBits(q2, n - 36, y.m)
             \* the quotient has 54 bits: the last one is the guard bit
             exact == q3[2] = <<0, 0>> /\ q3[1][2] % 2 = 0
             above == q3[1][2] % 2 = 1 /\ (q3[2] # <<0, 0>> \/ (q3[1][2] \div 2) % 2 = 1)
         IN  IF 2 * r < count THEN <<q>>
             ELSE IF 2 * r > count THEN <<q + 1>>
             ELSE IF exact THEN (IF q % 2 = 0 THEN <<q>> ELSE <<q + 1>>)
             ELSE IF above THEN <<q + 1>> ELSE <<q>>
    ELSE <<>>

\* after the last tick: KPIs (ratios kept as <<numerator, denominator>>, the
\* headway in hundredths of a second) and the response
Finish ==
    /\ entry = "run_sim" /\ pc = "tick"
    /\ ~(t < STEPS)
    /\ kpis' = << [mode |-> req.mode,
                   frames |-> Len(frames),
                   estimated_vph |-> <<car_exited * 3600, Max(1, STEPS)>>,
                   avg_discharge_headway_s |-> avg_headway(car_exit_ts),
                   progression_rate |-> <<car_zero_stop, Max(1, car_exited)>>,
                   avg_stops_main |-> <<car_stops_sum, Max(1, car_exited)>>,
                   avg_delay_main |-> <<car_delay_sum, Max(1, car_exited)>>,
                   avg_travel_time_s |-> <<car_travel_sum, 1000 * Max(1, car_exited)>>,
                   target_vph |-> target_vph,
                   total_arrived |-> arrived] >>
    /\ pc' = "done"
    /\ beat' = 1 - beat
    /\ UNCHANGED <<entry, corVars, tspVars, policyVars, req, rng, genVars, stopVars, kpiVars,
                   t, vehicles, moved, vi, nv, out_count, car_i, bus_spawn_index,
                   frames>>

NextSim ==
    \/ DemandWindow
    \/ DemandDone
    \/ SchedStep
    \/ SchedNextLine
    \/ TickSpawn
    \/ UpdateVehicle
    \/ TickEnd
    \/ Finish

SpecSim == InitSim /\ [][NextSim]_vars

\* run_sim entered with requests and seeds that exercise the car demand:
\* the default volume with streams whose draws lie near the upper end of
\* their ranges, a green window cut by the end of the run, and a dense
\* volume with platoons
InitDemand ==
    \E r \in [mode : {"fixed", "glide"}, steps : {60}, cycle : {40, 180},
               v_prog_kmh : {72}, cars_per_hour : {<<>>, <<2000>>}, dwell_sec : {20},
               simulate_bunching : {TRUE},
               bus_lines : {<<>>}],
       seed \in {1, 4, 5} :
        /\ r.cars_per_hour # <<>> => seed = 1
        /\ InitRun(<<r, seed>>)

SpecDemand == InitDemand /\ [][NextSim]_vars

\* run_sim has not returned and executes one more step
Step == entry = "run_sim" /\ pc # "done" /\ beat' = 1 - beat

\* run_sim runs on: until it returns, the interpreter keeps executing it
FairSim == SpecSim /\ WF_beat(Step)

-----------------------------------------------------------------------------
(* sumo_corridor.py: run_corridor and SumoCorridorSimulator.  SUMO and TraCI *)
(* are the environment: what they answer during a run is fixed by `call`.   *)

CorridorTls == <<"J1", "J2", "J3">>

\* a call of run_corridor in an environment where everything works: two buses
\* pass the reference point 35 s apart
BaseCall ==
    [mode |-> "glide_tsp", steps |-> 130,
     offsets |-> [J1 |-> 0, J2 |-> 27, J3 |-> 52],
     tsp |-> [H_sec |-> 20, delta_sec |-> 5, max_extend |-> 8, max_advance |-> 6],
     traci |-> TRUE,          \* the traci module was imported
     assets_dir |-> TRUE,     \* the assets directory exists
     sumocfg |-> TRUE,        \* corridor.sumocfg exists
     was_loaded |-> FALSE,    \* traci.isLoaded() when run_corridor is called
     start_failures |-> 0,    \* number of traci.start attempts that raise
     crash_step |-> <<>>,     \* loop index at which traci.simulationStep raises
     close_raises |-> FALSE,  \* traci.close raises
     near |-> << [id |-> "bus_1", t0 |-> 5, t1 |-> 7],
                 [id |-> "bus_2", t0 |-> 40, t1 |-> 42] >>]

\* the calls explored
CorridorCalls ==
    {BaseCall}
    \cup {[BaseCall EXCEPT !.mode = m, !.steps = n] :
             m \in {"fixed", "glide", "glide_tsp", "express"}, n \in {0, 1, 3, 62}}
    \cup {[BaseCall EXCEPT !.steps = 3, !.traci = FALSE, !.mode = m, !.assets_dir = a,
                           !.was_loaded = FALSE] :
             m \in {"fixed", "glide", "glide_tsp", "express"}, a \in BOOLEAN}
    \cup {[BaseCall EXCEPT !.steps = 3, !.traci = FALSE],
          [BaseCall EXCEPT !.steps = 3, !.assets_dir = FALSE],
          [BaseCall EXCEPT !.steps = 3, !.sumocfg = FALSE],
          [BaseCall EXCEPT !.steps = 3, !.was_loaded = TRUE]}
    \cup {[BaseCall EXCEPT !.steps = 3, !.start_failures = f] : f \in {1, 2, 3}}
    \cup {[BaseCall EXCEPT !.steps = 3, !.crash_step = <<c>>] : c \in {0, 2}}
    \cup {[BaseCall EXCEPT !.steps = 3, !.close_raises = TRUE, !.crash_step = c,
                           !.start_failures = f, !.sumocfg = g] :
             c \in {<<>>, <<1>>}, f \in {0, 3}, g \in BOOLEAN}
    \cup {[BaseCall EXCEPT !.steps = 70, !.tsp = EmptyDict],
          [BaseCall EXCEPT !.steps = 70, !.near = <<>>],
          [BaseCall EXCEPT !.steps = 70,
                           !.near = << [id |-> "bus_1", t0 |-> 35, t1 |-> 36],
                                       [id |-> "bus_2", t0 |-> 36, t1 |-> 38] >>]}

\* calculate_headway(bus_times) with target_bus_id = None
calculate_headway(bus_times) ==
    IF Len(bus_times) < 2 THEN 360
    ELSE bus_times[Len(bus_times)][2] - bus_times[Len(bus_times) - 1][2]

\* offsets given to start_simulation: all 0 in fixed mode
actual_offsets ==
    IF call.mode = "fixed" THEN [J1 |-> 0, J2 |-> 0, J3 |-> 0] ELSE call.offsets

\* position in the static 90 s program written by generate_additional_file
\* (main green 54, yellow 6, all red 2, side green 24, side yellow 4)
ProgramClock(tls_id, sim_time) == (sim_time + actual_offsets[tls_id]) % 90

\* traci.trafficlight.getPhase(tls_id)
getPhase(tls_id, sim_time) ==
    LET c == ProgramClock(tls_id, sim_time)
    IN  IF c < 54 THEN 0 ELSE IF c < 60 THEN 1 ELSE IF c < 62 THEN 2
        ELSE IF c < 86 THEN 3 ELSE 4

\* traci.trafficlight.getNextSwitch(tls_id)
getNextSwitch(tls_id, sim_time) ==
    LET c == ProgramClock(tls_id, sim_time)
        phase_end == IF c < 54 THEN 54 ELSE IF c < 60 THEN 60 ELSE IF c < 62 THEN 62
                     ELSE IF c < 86 THEN 86 ELSE 90
    IN  sim_time + (phase_end - c)

\* collect_frame_data: a bus near the reference point is recorded unless it
\* is among the last 5 records
RECURSIVE RecordPassages(_, _, _)
RecordPassages(i, sim_time, bpt) ==
    IF i > Len(call.near) THEN bpt
    ELSE LET b == call.near[i]
             seen == b.t0 <= sim_time /\ sim_time <= b.t1
             last5 == SubSeq(bpt, Max(1, Len(bpt) - 4), Len(bpt))
             known == \E j \in 1..Len(last5) : last5[j][1] = b.id
         IN  RecordPassages(i + 1, sim_time,
                            IF seen /\ ~known THEN Append(bpt, <<b.id, sim_time>>)
                            ELSE bpt)

\* the node loop of apply_tsp_control from node i on; S holds the controller's
\* last_grant_time (lgt) and total_extensions (te), sim.events (ev) and the
\* events of this call (out)
RECURSIVE TspNodes(_, _, _, _)
TspNodes(i, sim_time, d, S) ==
    IF i > Len(CorridorTls) THEN S
    ELSE LET tls_id == CorridorTls[i]
             phase_index == getPhase(tls_id, sim_time)
             remaining == getNextSwitch(tls_id, sim_time) - sim_time
             current_ext == get_cycle_extensions(S.te, tls_id)
             r == apply_tsp_to_phase(remaining, current_ext, d, 10, max_cycle_extension)
             extend == [t |-> sim_time, type |-> "TSP_EXTEND", node |-> tls_id, sec |-> r[1]]
             hold == [t |-> sim_time, type |-> "BUS_HOLD", node |-> tls_id, sec |-> d.hold]
         IN  IF ~can_grant_tsp(S.lgt, tls_id, sim_time, cooldown)
             THEN TspNodes(i + 1, sim_time, d, S)
             ELSE IF d.grant
             THEN IF phase_index = 0 /\ remaining > 0 /\ r[2] /\ r[1] > 0
                  THEN TspNodes(i + 1, sim_time, d,
                                [lgt |-> Put(S.lgt, tls_id, sim_time),
                                 te |-> Put(S.te, tls_id, current_ext + r[1]),
                                 ev |-> Append(S.ev, extend),
                                 out |-> Append(S.out, extend)])
                  ELSE TspNodes(i + 1, sim_time, d, S)
             ELSE IF d.hold > 0
             THEN TspNodes(i + 1, sim_time, d,
                           [S EXCEPT !.ev = Append(@, hold), !.out = Append(@, hold)])
             ELSE TspNodes(i + 1, sim_time, d, S)

\* apply_tsp_control(sim_time, tsp_config) with the passages bpt
apply_tsp_control(sim_time, tsp_config, bpt, S) ==
    IF Len(bpt) < 2 THEN S
    ELSE TspNodes(1, sim_time,
                  tsp_policy(calculate_headway(bpt), Get(tsp_config, "H_sec", 360),
                             Get(tsp_config, "delta_sec", 90),
                             Get(tsp_config, "max_extend", 8),
                             Get(tsp_config, "max_advance", 6)),
                  S)

\* a close_connection without its try statement: an error of traci.close
\* leaves the label and reaches the caller
close_connection_bare(label, loaded) ==
    IF label # <<>> /\ call.traci
    THEN IF loaded /\ call.close_raises
         THEN [connection_label |-> label, traci_loaded |-> loaded, raised |-> TRUE]
         ELSE [connection_label |-> <<>>, traci_loaded |-> FALSE, raised |-> FALSE]
    ELSE [connection_label |-> label, traci_loaded |-> loaded, raised |-> FALSE]

\* close_connection() on the way out of the `with` block: traci.close runs when
\* traci.isLoaded(); its error is caught and printed (the connection stays
\* loaded), and the `finally` clause resets the label; `raised` tells whether
\* an exception leaves close_connection
close_connection(label, loaded) ==
    IF label # <<>> /\ call.traci
    THEN [connection_label |-> <<>>,
          traci_loaded |-> loaded /\ call.close_raises,
          raised |-> FALSE]
    ELSE [connection_label |-> label, traci_loaded |-> loaded, raised |-> FALSE]

\* what run_corridor delivers when it leaves the `with` block with the value
\* res: an exception of __exit__ replaces the returned value
leave_with(cl, res) ==
    IF cl.raised THEN << [raised |-> <<"close_connection">>] >> ELSE res

\* calculate_kpis(frames) and kpis["mode"] = mode
calculate_kpis(fr, ev) ==
    IF fr = <<>> THEN [mode |-> call.mode]
    ELSE [mode |-> call.mode,
          tsp_grants |-> Cardinality({i \in 1..Len(ev) : ev[i].type = "TSP_EXTEND"}),
          bus_holds |-> Cardinality({i \in 1..Len(ev) : ev[i].type = "BUS_HOLD"}),
          simulation_frames |-> Len(fr)]

InitCor ==
    /\ entry = "run_corridor"
    /\ InitTspVars /\ cooldown = 60 /\ max_cycle_extension = 10
    /\ tsp_args = [called |-> FALSE, h_now |-> 0, H |-> 0, delta |-> 0,
                   max_ext |-> 0, max_adv |-> 0]
    /\ decision = TSPDecision
    /\ PairIdle /\ compared = <<>>
    /\ PhaseIdle /\ OffsetsIdle
    /\ SimRestIdle /\ pc = "call" /\ beat = 0 /\ frames = <<>> /\ kpis = <<>>
    /\ call \in CorridorCalls
    /\ connection_label = <<>> /\ bus_passage_times = <<>>
    /\ traci_loaded = call.was_loaded
    /\ attempt = 0 /\ step = 0 /\ close_calls = 0 /\ result = <<>>

\* an entry of run_corridor that does not test the traci module
RcEnter_nocheck ==
    /\ entry = "run_corridor" /\ pc = "call"
    /\ IF call.mode \notin {"fixed", "glide", "glide_tsp"}
       THEN /\ result' = << [error |-> <<"Unknown mode: ", call.mode>>] >>
            /\ pc' = "returned"
       ELSE /\ pc' = "start"
            /\ UNCHANGED result
    /\ UNCHANGED <<entry, beat, tspVars, policyVars, simRest, frames, kpis, call,
                   connection_label, bus_passage_times, traci_loaded, attempt, step,
                   close_calls>>

\* run_corridor up to the creation of the simulator (lines 443-460)
RcEnter ==
    /\ entry = "run_corridor" /\ pc = "call"
    /\ IF ~call.traci
       THEN /\ result' = << [error |-> <<"SUMO/TraCI not available">>] >>
            /\ pc' = "returned"
       ELSE IF call.mode \notin {"fixed", "glide", "glide_tsp"}
       THEN /\ result' = << [error |-> <<"Unknown mode: ", call.mode>>] >>
            /\ pc' = "returned"
       ELSE /\ pc' = "start"
            /\ UNCHANGED result
    /\ UNCHANGED <<entry, beat, tspVars, policyVars, simRest, frames, kpis, call,
                   connection_label, bus_passage_times, traci_loaded, attempt, step,
                   close_calls>>

\* start_simulation before the connection attempts (lines 118-150); when it
\* returns False run_corridor returns through close_connection
RcStart ==
    /\ entry = "run_corridor" /\ pc = "start"
    /\ IF ~call.assets_dir
       THEN \* generate_additional_file raises before the label is set
            LET cl == close_connection(connection_label, FALSE)
            IN  /\ connection_label' = cl.connection_label
                /\ traci_loaded' = cl.traci_loaded
                /\ close_calls' = close_calls + 1
                /\ result' = leave_with(cl,
                                 << [error |-> <<"Failed to start SUMO simulation">>] >>)
                /\ pc' = "returned"
       ELSE IF ~call.sumocfg
       THEN \* FileNotFoundError after the label is set
            LET cl == close_connection(<<"corridor">>, FALSE)
            IN  /\ connection_label' = cl.connection_label
                /\ traci_loaded' = cl.traci_loaded
                /\ close_calls' = close_calls + 1
                /\ result' = leave_with(cl,
                                 << [error |-> <<"Failed to start SUMO simulation">>] >>)
                /\ pc' = "returned"
       ELSE /\ connection_label' = <<"corridor">>
            /\ traci_loaded' = FALSE
            /\ pc' = "connect"
            /\ UNCHANGED <<result, close_calls>>
    /\ UNCHANGED <<entry, beat, tspVars, policyVars, simRest, frames, kpis, call,
                   bus_passage_times, attempt, step>>

\* a connection loop that gives up after the second failed attempt
RcConnect_two ==
    /\ entry = "run_corridor" /\ pc = "connect"
    /\ attempt' = attempt + 1
    /\ IF attempt < call.start_failures
       THEN IF attempt < 1
            THEN UNCHANGED <<pc, connection_label, traci_loaded, result, close_calls>>
            ELSE LET cl == close_connection(connection_label, traci_loaded)
                 IN  /\ connection_label' = cl.connection_label
                     /\ traci_loaded' = cl.traci_loaded
                     /\ close_calls' = close_calls + 1
                     /\ result' = leave_with(cl,
                                      << [error |-> <<"Failed to start SUMO simulation">>] >>)
                     /\ pc' = "returned"
       ELSE /\ traci_loaded' = TRUE
            /\ pc' = "loop"
            /\ UNCHANGED <<connection_label, result, close_calls>>
    /\ UNCHANGED <<entry, beat, tspVars, policyVars, simRest, frames, kpis, call,
                   bus_passage_times, step>>

\* one iteration of `for attempt in range(3)` (lines 153-164)
RcConnect ==
    /\ entry = "run_corridor" /\ pc = "connect"
    /\ attempt' = attempt + 1
    /\ IF attempt < call.start_failures
       THEN IF attempt < 2
            THEN UNCHANGED <<pc, connection_label, traci_loaded, result, close_calls>>
            ELSE LET cl == close_connection(connection_label, traci_loaded)
                 IN  /\ connection_label' = cl.connection_label
                     /\ traci_loaded' = cl.traci_loaded
                     /\ close_calls' = close_calls + 1
                     /\ result' = leave_with(cl,
                                      << [error |-> <<"Failed to start SUMO simulation">>] >>)
                     /\ pc' = "returned"
       ELSE /\ traci_loaded' = TRUE
            /\ pc' = "loop"
            /\ UNCHANGED <<connection_label, result, close_calls>>
    /\ UNCHANGED <<entry, beat, tspVars, policyVars, simRest, frames, kpis, call,
                   bus_passage_times, step>>

\* one iteration of `for step in range(steps)` (lines 469-487)
RcStep ==
    /\ entry = "run_corridor" /\ pc = "loop"
    /\ step < call.steps
    /\ IF call.crash_step = <<step>>
       THEN \* traci.simulationStep raises: lines 502-505, then close_connection
            LET cl == close_connection(connection_label, traci_loaded)
            IN  /\ connection_label' = cl.connection_label
                /\ traci_loaded' = cl.traci_loaded
                /\ close_calls' = close_calls + 1
                /\ result' = leave_with(cl, << [error |-> <<"simulationStep">>,
                                                success |-> FALSE] >>)
                /\ pc' = "returned"
                /\ UNCHANGED <<now, bus_passage_times, frames, last_grant_time,
                               total_extensions, events, step>>
       ELSE LET sim_time == now + 1
                bpt == RecordPassages(1, sim_time, bus_passage_times)
                S0 == [lgt |-> last_grant_time, te |-> total_extensions,
                       ev |-> events, out |-> <<>>]
                S == IF call.mode = "glide_tsp" /\ sim_time > 30
                     THEN apply_tsp_control(sim_time, call.tsp, bpt, S0)
                     ELSE S0
            IN  /\ now' = sim_time
                /\ bus_passage_times' = bpt
                /\ last_grant_time' = S.lgt
                /\ total_extensions' = S.te
                /\ events' = S.ev
                /\ frames' = Append(frames, [t |-> sim_time, events |-> S.out])
                /\ step' = step + 1
                /\ UNCHANGED <<pc, connection_label, traci_loaded, result, close_calls>>
    /\ UNCHANGED <<entry, beat, cycle_start_time, cooldown, max_cycle_extension, can_grant,
                   policyVars, simRest, kpis, call, attempt>>

\* after the loop: KPIs, the success result, close_connection (lines 489-500)
RcFinish ==
    /\ entry = "run_corridor" /\ pc = "loop"
    /\ ~(step < call.steps)
    /\ kpis' = << calculate_kpis(frames, events) >>
    /\ LET cl == close_connection(connection_label, traci_loaded)
       IN  /\ connection_label' = cl.connection_label
           /\ traci_loaded' = cl.traci_loaded
           /\ close_calls' = close_calls + 1
           /\ result' = leave_with(cl, << [success |-> TRUE] >>)
    /\ pc' = "returned"
    /\ UNCHANGED <<entry, beat, tspVars, policyVars, simRest, frames, call,
                   bus_passage_times, attempt, step>>

NextCor ==
    \/ RcEnter
    \/ RcStart
    \/ RcConnect
    \/ RcStep
    \/ RcFinish

SpecCor == InitCor /\ [][NextCor]_vars

-----------------------------------------------------------------------------
(* Two runs executing concurrently (two threads of one process).  Each run  *)
(* is run_sim, reduced to its draws from the module-level random sources,   *)
(* or run_corridor, reduced to its calls of the traci module.  The sources  *)
(* and the traci module are module state: `draws` counts the values drawn;  *)
(* `conns` is the set of open TraCI connections, `cur` the connection the   *)
(* module-level calls act on (0: none) and simt the simulation time of each *)
(* connection.  Run r labels its connection r (the uuid label).             *)

\* Bound of the model: draws of a run_sim run, loop steps of a run_corridor run
MaxPairSteps == 2

InitPair ==
    /\ entry = "pair"
    /\ InitTspVars /\ cooldown = 60 /\ max_cycle_extension = 10
    /\ tsp_args = [called |-> FALSE, h_now |-> 0, H |-> 0, delta |-> 0,
                   max_ext |-> 0, max_adv |-> 0]
    /\ decision = TSPDecision /\ PhaseIdle /\ OffsetsIdle
    /\ SimIdle /\ CorIdle /\ compared = <<>>
    /\ \E e \in [{1, 2} -> {"run_sim", "run_corridor"}] :
          pair = [conns |-> {}, cur |-> 0, simt |-> [l \in {1, 2} |-> 0], draws |-> 0,
                  run |-> [r \in {1, 2} |->
                             [engine |-> e[r], pc |-> "call", label |-> 0, step |-> 0,
                              drawn |-> <<>>, result |-> ""]]]

\* one step of run r
PairStep(r) ==
    /\ entry = "pair"
    /\ LET me == pair.run[r]
           \* traci.close(False): the current connection is closed
           closed == [pair EXCEPT !.conns = @ \ {pair.cur}, !.cur = 0]
       IN  \/ \* run_sim: random.uniform / np.random.lognormal (lines 144-167)
              /\ me.engine = "run_sim" /\ me.pc = "call"
              /\ Len(me.drawn) < MaxPairSteps
              /\ pair' = [pair EXCEPT !.draws = @ + 1,
                                      !.run[r].drawn = Append(@, pair.draws)]
           \/ \* run_sim returns
              /\ me.engine = "run_sim" /\ me.pc = "call"
              /\ Len(me.drawn) = MaxPairSteps
              /\ pair' = [pair EXCEPT !.run[r].pc = "returned", !.run[r].result = "ok"]
           \/ \* start_simulation: if traci.isLoaded(): traci.close(False)
              /\ me.engine = "run_corridor" /\ me.pc = "call"
              /\ pair' = [(IF pair.cur # 0 THEN closed ELSE pair)
                             EXCEPT !.run[r].pc = "connect"]
           \/ \* start_simulation: connection_label = ...; traci.start(cmd, label)
              /\ me.engine = "run_corridor" /\ me.pc = "connect"
              /\ pair' = [pair EXCEPT !.conns = @ \cup {r}, !.cur = r, !.simt[r] = 0,
                                      !.run[r].label = r, !.run[r].pc = "switch"]
           \/ \* the loop head and traci.switch(sim.connection_label), which
              \* raises when the label is not an open connection
              /\ me.engine = "run_corridor" /\ me.pc = "switch"
              /\ pair' = IF me.step = MaxPairSteps
                         THEN [pair EXCEPT !.run[r].pc = "close", !.run[r].result = "ok"]
                         ELSE IF me.label \notin pair.conns
                         THEN [pair EXCEPT !.run[r].pc = "close",
                                           !.run[r].result = "error"]
                         ELSE [pair EXCEPT !.cur = me.label, !.run[r].pc = "step"]
           \/ \* traci.simulationStep(), on the current connection; it raises
              \* when there is none
              /\ me.engine = "run_corridor" /\ me.pc = "step"
              /\ pair' = IF pair.cur = 0
                         THEN [pair EXCEPT !.run[r].pc = "close",
                                           !.run[r].result = "error"]
                         ELSE [pair EXCEPT !.simt[pair.cur] = @ + 1,
                                           !.run[r].step = @ + 1,
                                           !.run[r].pc = "switch"]
           \/ \* close_connection: if traci.isLoaded(): traci.close(False);
              \* connection_label = None
              /\ me.engine = "run_corridor" /\ me.pc = "close"
              /\ pair' = [(IF pair.cur # 0 THEN closed ELSE pair)
                             EXCEPT !.run[r].label = 0, !.run[r].pc = "returned"]
    /\ UNCHANGED <<entry, corVars, tspVars, simVars, tsp_args, decision, phase_call,
                   offsets_call, compared>>

NextPair == \E r \in {1, 2} : PairStep(r)

SpecPair == InitPair /\ [][NextPair]_vars

-----------------------------------------------------------------------------
(* run_sim: the KPI block (lines 444-462) applied to a drawn record of car  *)
(* exits.  Init is either the entry of a run or the end of the tick loop of *)
(* a 90-tick run with one bus line whose first departure lies after the    *)
(* run, in which the drawn cars, and no others, have departed 0.6 s apart   *)
(* and have left without stopping.                                         *)

\* Bound of the model: longest drawn record of exits
MaxExits == 4

\* exit ticks t + 1 such a run can record, in the order of recording: a car
\* covers the 1630 m in 77.7 s to 88.5 s (v = V * uniform(0.92, 1.05))
ExitRecords ==
    {ts \in UNION {[1..n -> {83, 84, 86, 88}] : n \in 0..MaxExits} :
        \A i \in 1..(Len(ts) - 1) : ts[i] <= ts[i + 1]}
    \cup {<<83, 83, 84, 85, 85, 86, 87, 88, 90>>,
          <<83, 83, 84, 84, 85, 86, 86, 87, 88>>}

InitKpi ==
    /\ entry = "run_sim"
    /\ InitTspVars /\ cooldown = 60 /\ max_cycle_extension = 10
    /\ tsp_args = [called |-> FALSE, h_now |-> 0, H |-> 0, delta |-> 0,
                   max_ext |-> 0, max_adv |-> 0]
    /\ decision = TSPDecision
    /\ PairIdle /\ compared = <<>>
    /\ PhaseIdle /\ OffsetsIdle
    /\ CorIdle
    /\ req = [mode |-> "fixed", steps |-> 90, cycle |-> 180, v_prog_kmh |-> 72,
              cars_per_hour |-> <<>>, dwell_sec |-> 20,
              simulate_bunching |-> TRUE,
              bus_lines |-> << << BusLineSpec("L", 3600, 0, 20, 600) >> >>]
    /\ rng = [seed |-> 3, n |-> 0, m |-> 0]
    /\ pc = "tick" /\ beat = 0
    /\ k = 1 /\ li = 1 /\ t_bus = 605000 /\ times = <<>>
    /\ schedule = Put(EmptyDict, "L", <<>>)
    /\ stop_occupancy = [sx \in {-450000, 450000} |-> <<>>]
    /\ stop_release_time = [sx \in {-450000, 450000} |-> <<>>]
    /\ last_arrival_time = [sx \in {-450000, 450000} |-> <<>>]
    /\ \E ts \in ExitRecords :
          /\ car_exit_ts = ts
          /\ car_depart_times = [i \in 1..Len(ts) |-> 600 * i]
          /\ car_exited = Len(ts) /\ car_zero_stop = Len(ts)
          \* the sum of (t + 1) - enter_t over the cars
          /\ car_travel_sum =
                1000 * Cardinality({iv \in (1..Len(ts)) \X (1..90) : iv[2] <= ts[iv[1]]})
                - 300 * Len(ts) * (Len(ts) + 1)
          /\ arrived = Len(ts) /\ car_i = Len(ts)
    /\ car_delay_sum = 0 /\ car_stops_sum = 0
    /\ bus_delay_line = EmptyDict
    /\ t = 90 /\ vehicles = <<>> /\ moved = <<>> /\ vi = 1 /\ nv = <<>>
    /\ out_count = 0 /\ bus_spawn_index = [lid \in {"L"} |-> 0]
    /\ frames = [i \in 1..90 |-> Frame(i - 1, <<>>)]
    /\ kpis = <<>>
    /\ monitor = InitialMonitor

SpecKpi == (InitSim \/ InitKpi) /\ [][NextSim]_vars

\* a request whose run is long enough for a bus to travel the whole corridor:
\* one bus of a line with a dwell of 1 s, all signals green until tick 108
TripRequest ==
    [mode |-> "fixed", steps |-> 120, cycle |-> 180,
     v_prog_kmh |-> 72, cars_per_hour |-> <<>>, dwell_sec |-> 20,
     simulate_bunching |-> TRUE,
     bus_lines |-> << << BusLineSpec("B", 3600, 0, 1, 0) >> >>]

\* the same request with a cycle of 40 s makes cars wait at red signals
InitTrip == \E c \in {40, 180} : InitRun(<<[TripRequest EXCEPT !.cycle = c], 3>>)

\* the short runs of run_sim together with the runs of TripRequest
SpecTrip == (InitSim \/ InitTrip) /\ [][NextSim]_vars

-----------------------------------------------------------------------------
(* run_sim: the render sampling of one tick (lines 420-442) applied to an   *)
(* active set of a given size.  Init draws the volume and the numbers of    *)
(* active buses and cars, the action builds the frame.                     *)

InitRender ==
    /\ entry = "render"
    /\ InitTspVars /\ cooldown = 60 /\ max_cycle_extension = 10
    /\ tsp_args = [called |-> FALSE, h_now |-> 0, H |-> 0, delta |-> 0,
                   max_ext |-> 0, max_adv |-> 0]
    /\ decision = TSPDecision
    /\ PairIdle /\ compared = <<>>
    /\ PhaseIdle /\ OffsetsIdle
    /\ CorIdle
    /\ \E vph \in {<<1000>>, <<>>, <<2000>>} :
          req = [mode |-> "fixed", steps |-> 600, cycle |-> 180, v_prog_kmh |-> 72,
                 cars_per_hour |-> vph, dwell_sec |-> 20,
                 simulate_bunching |-> TRUE, bus_lines |-> <<>>]
    /\ rng = <<>>
    /\ pc = "render" /\ beat = 0
    /\ k = 0 /\ car_depart_times = <<>> /\ li = 0 /\ t_bus = 0 /\ times = <<>>
    /\ schedule = EmptyDict
    /\ stop_occupancy = EmptyDict /\ stop_release_time = EmptyDict
    /\ last_arrival_time = EmptyDict /\ monitor = <<>>
    /\ car_exited = 0 /\ car_zero_stop = 0 /\ car_delay_sum = 0
    /\ car_stops_sum = 0 /\ car_travel_sum = 0 /\ car_exit_ts = <<>>
    /\ bus_delay_line = EmptyDict /\ arrived = 0
    /\ t = 400
    /\ \E nb \in {0, 1, 4}, nc \in {0, 150, 216, 217, 220, 221, 330, 440, 441, 501} :
          /\ vehicles =
                [i \in 1..(nb + nc) |->
                    IF i <= nb
                    THEN Vehicle(BusId("A", i - 1), "bus", "A", X_MIN + i * 20000, V_BUS, 0)
                    ELSE Vehicle(CarId(i - nb - 1), "car", "", X_MIN + (i - nb) * 1000, V, 0)]
          /\ car_i = nc
    /\ moved = vehicles /\ vi = Len(vehicles) + 1 /\ nv = <<>>
    /\ out_count = 0 /\ bus_spawn_index = EmptyDict
    /\ frames = <<>> /\ kpis = <<>>

\* render = buses + sampled cars; frames.append({"t": t, ..., "vehicles": render})
RenderFrame ==
    /\ entry = "render" /\ pc = "render"
    /\ frames' = Append(frames, Frame(t, vehicles))
    /\ pc' = "rendered"
    /\ UNCHANGED <<entry, corVars, tspVars, policyVars, req, rng, beat, genVars, stopVars,
                   kpiVars, t, vehicles, moved, vi, nv, out_count, car_i,
                   bus_spawn_index, kpis>>

SpecRender == InitRender /\ [][RenderFrame]_vars

-----------------------------------------------------------------------------
(* the two simulation engines, with the run beyond the step cap *)

InitRuns == InitSim \/ InitSimLong \/ InitCor

NextRuns == NextSim \/ NextCor

SpecRuns == InitRuns /\ [][NextRuns]_vars

-----------------------------------------------------------------------------
(* run_sim: the signal plan alone.  The signals of tick t (lines 372-373)   *)
(* are computed for every cycle length the request model admits, over       *)
(* MaxCycles signal cycles and one more tick.                               *)

\* Bound of the model: the number of signal cycles a signal run lasts
MaxCycles == 1

\* the requests of the signal runs: every cycle of Field(90, ge=30, le=180)
SignalRequests ==
    [mode : {"fixed", "glide"}, steps : {1200}, cycle : 30..180,
     v_prog_kmh : {72}, cars_per_hour : {<<>>}, dwell_sec : {20},
     simulate_bunching : {TRUE}, bus_lines : {<<>>}]

InitSignal ==
    /\ entry = "signals"
    /\ InitTspVars /\ cooldown = 60 /\ max_cycle_extension = 10
    /\ tsp_args = [called |-> FALSE, h_now |-> 0, H |-> 0, delta |-> 0,
                   max_ext |-> 0, max_adv |-> 0]
    /\ decision = TSPDecision
    /\ PairIdle /\ compared = <<>>
    /\ PhaseIdle /\ OffsetsIdle
    /\ CorIdle
    /\ req \in SignalRequests /\ rng = [seed |-> 3, n |-> 0, m |-> 0]
    /\ pc = "tick" /\ beat = 0
    /\ k = 0 /\ car_depart_times = <<>> /\ li = 0 /\ t_bus = 0 /\ times = <<>>
    /\ schedule = EmptyDict
    /\ stop_occupancy = EmptyDict /\ stop_release_time = EmptyDict
    /\ last_arrival_time = EmptyDict /\ monitor = <<>>
    /\ car_exited = 0 /\ car_zero_stop = 0 /\ car_delay_sum = 0
    /\ car_stops_sum = 0 /\ car_travel_sum = 0 /\ car_exit_ts = <<>>
    /\ bus_delay_line = EmptyDict /\ arrived = 0
    /\ t = 0 /\ vehicles = <<>> /\ moved = <<>> /\ vi = 0 /\ nv = <<>>
    /\ out_count = 0 /\ car_i = 0 /\ bus_spawn_index = EmptyDict
    /\ frames = <<>> /\ kpis = <<>>

\* the signals of tick t are computed and recorded in the frame of the tick
SignalTick ==
    /\ entry = "signals"
    /\ t < MaxCycles * C + 1 /\ t < STEPS
    /\ frames' = Append(frames, Frame(t, <<>>))
    /\ t' = t + 1
    /\ UNCHANGED <<entry, corVars, tspVars, policyVars, req, rng, pc, beat, genVars,
                   stopVars, kpiVars, vehicles, moved, vi, nv, out_count, car_i,
                   bus_spawn_index, kpis>>

SpecSignal == InitSignal /\ [][SignalTick]_vars

-----------------------------------------------------------------------------
(* run_sim: one request posted twice.  A client posts a request in mode      *)
(* glide, keeps the response, and posts the same request again in mode       *)
(* glide_tsp with the random sources seeded as before.                       *)

\* the first post: a run of Runs in mode glide
InitModes == \E run \in Runs : run[1].mode = "glide" /\ InitRun(run)

\* the returned dict (lines 482-490) is kept and run_sim is entered again
\* with the mode replaced
PostAgain ==
    /\ entry = "run_sim" /\ pc = "done"
    /\ compared = <<>> /\ req.mode = "glide"
    /\ compared' = << [frames |-> frames, kpis |-> kpis, monitor |-> monitor,
                       events |-> events] >>
    /\ req' = [req EXCEPT !.mode = "glide_tsp"]
    /\ rng' = [seed |-> rng.seed, n |-> 0, m |-> 0]
    /\ pc' = "demand" /\ beat' = 0
    /\ k' = 0 /\ car_depart_times' = <<>> /\ li' = 0 /\ t_bus' = 0 /\ times' = <<>>
    /\ schedule' = EmptyDict
    /\ stop_occupancy' = EmptyDict /\ stop_release_time' = EmptyDict
    /\ last_arrival_time' = EmptyDict /\ monitor' = <<>>
    /\ car_exited' = 0 /\ car_zero_stop' = 0 /\ car_delay_sum' = 0
    /\ car_stops_sum' = 0 /\ car_travel_sum' = 0 /\ car_exit_ts' = <<>>
    /\ bus_delay_line' = EmptyDict /\ arrived' = 0
    /\ t' = 0 /\ vehicles' = <<>> /\ moved' = <<>> /\ vi' = 0 /\ nv' = <<>>
    /\ out_count' = 0 /\ car_i' = 0 /\ bus_spawn_index' = EmptyDict
    /\ frames' = <<>> /\ kpis' = <<>>
    /\ UNCHANGED <<entry, corVars, tspVars, tsp_args, decision, phase_call, offsets_call,
                   pair>>

SpecModes == InitModes /\ [][NextSim \/ PostAgain]_vars

-----------------------------------------------------------------------------
(* every entry point *)

Init == InitTsp \/ InitPolicy \/ InitPhase \/ InitOffsets \/ InitRender \/ InitKpi \/ InitPair
           \/ InitSignal \/ InitModes \/ InitRuns

Next == NextTsp \/ NextPolicy \/ NextPhase \/ NextOffsets \/ RenderFrame \/ NextPair
           \/ SignalTick \/ PostAgain \/ NextRuns

Spec == Init /\ [][Next]_vars

-----------------------------------------------------------------------------
(* Claims about run_sim *)

\* C1: at every tick each bus stop's occupant list holds at most STOP_BERTHS
\* (2) bus ids.
C1_BerthCapacity ==
    \A sx \in DOMAIN stop_occupancy : Len(stop_occupancy[sx]) <= STOP_BERTHS

\* a stop is full and the bus just updated was held before it although the
\* coincidence window of the last admission is over
C1_Witness ==
    /\ entry = "run_sim" /\ pc = "update" /\ nv # <<>>
    /\ \E sx \in DOMAIN stop_occupancy :
          /\ Len(stop_occupancy[sx]) = STOP_BERTHS
          /\ nv[1].kind = "bus" /\ nv[1].queueing /\ nv[1].x = sx - PRESTOP_HOLD
          /\ t - last_arrival_time[sx][1] > COINCIDENCE_WINDOW

\* C2: at the end of every tick, cars exited so far plus cars still active
\* equals cars spawned so far.
C2_CarConservation ==
    (entry = "run_sim" /\ pc \in {"tick", "done"}) =>
        car_exited + Len(SelectSeq(vehicles, IsCar)) = car_i

\* a completed run in which some cars have exited and some are still active
C2_Witness ==
    /\ entry = "run_sim" /\ pc = "done"
    /\ car_exited > 0 /\ Len(SelectSeq(vehicles, IsCar)) > 0

\* the step that updates vehicles[vi]
IsUpdateStep == entry = "run_sim" /\ pc = "update" /\ vi' = vi + 1

\* C3: a vehicle's position x never decreases from one tick to the next.
C3_XNonDecreasing ==
    [][IsUpdateStep => nv'[1].x >= vehicles[vi].x]_vars

\* C4: a vehicle that is before a stop line whose node is not Green at this
\* tick is still before that stop line after its update, and at most
\* stop line - 4.5 if that stop line is the next one ahead.
C4_NoCrossingOnRed ==
    [][IsUpdateStep =>
          \A nid \in DOMAIN stoplines :
             (vehicles[vi].x < stoplines[nid] /\ ~green_now(t)[nid]) =>
                /\ nv'[1].x < stoplines[nid]
                /\ (\A o \in DOMAIN stoplines :
                       vehicles[vi].x < stoplines[o] => stoplines[nid] <= stoplines[o])
                   => nv'[1].x <= stoplines[nid] - STOPLINE_BUFFER]_vars

\* C5: run_sim terminates for every request that passes validation.
C5_Terminates == <>(pc = "done")

\* C6: a successful run returns one frame per executed tick, in increasing
\* tick order: run_sim returns min(steps, 1200) frames, frame i carries t = i
\* and kpis.frames is that count; run_corridor returns exactly `steps` frames.
C6_OneFramePerTick ==
    /\ (entry = "run_sim" /\ pc = "done") =>
          /\ Len(frames) = Min(req.steps, 1200)
          /\ \A i \in 1..Len(frames) : frames[i].t = i - 1
          /\ kpis[1].frames = Len(frames)
    /\ (entry = "run_corridor" /\ result # <<>> /\ "success" \in DOMAIN result[1]
          /\ result[1].success) =>
          /\ Len(frames) = call.steps
          /\ \A i, j \in 1..Len(frames) : i < j => frames[i].t < frames[j].t

\* a run_sim request has completed with one frame per tick, the last of them
\* carrying vehicles
C6_Witness ==
    /\ entry = "run_sim" /\ pc = "done"
    /\ Len(frames) = req.steps /\ frames[Len(frames)].t = req.steps - 1
    /\ frames[Len(frames)].vehicles # <<>>

\* the ids rendered in frame j
RenderedIds(j) ==
    {frames[j].vehicles[i].id : i \in 1..Len(frames[j].vehicles)}

\* buses folded into the per-line exit totals so far
BusesExited ==
    LET RECURSIVE sum(_)
        sum(S) == IF S = {} THEN 0
                  ELSE LET lid == CHOOSE x \in S : TRUE
                       IN  bus_delay_line[lid].exited + sum(S \ {lid})
    IN  sum(DOMAIN bus_delay_line)

\* C16, the state part: every active vehicle has x <= X_MAX + 30, the arrival
\* total at the end of a tick is the number of cars and buses folded into the
\* run totals, and a vehicle that has dropped out of the rendered frames never
\* shows up in a later frame.
C16_ActiveAndTotals ==
    entry = "run_sim" =>
       /\ \A i \in 1..Len(vehicles) : vehicles[i].x <= X_MAX + 30000
       /\ \A i \in 1..Len(moved) : moved[i].x <= X_MAX + 30000
       /\ pc \in {"tick", "done"} => arrived = car_exited + BusesExited
       /\ pc = "done" =>
             \A a \in 1..Len(frames) :
                /\ \A i \in 1..Len(frames[a].vehicles) :
                      frames[a].vehicles[i].x <= X_MAX + 30000
                /\ a < Len(frames) =>
                      \A id \in RenderedIds(a) \ RenderedIds(a + 1) :
                         \A c \in (a + 1)..Len(frames) : id \notin RenderedIds(c)

\* C16, the step part: the update of a vehicle removes it exactly when its new
\* x exceeds X_MAX + 30, counting it once and folding its accumulators into
\* the totals once; otherwise it stays active and the totals do not change;
\* the end of the tick makes the kept vehicles the active set.
C16_RemovalStep ==
    /\ IsUpdateStep =>
          LET v1 == nv'[1]
              zero == [signal |-> 0, queue |-> 0, dwell |-> 0, exited |-> 0]
          IN  IF v1.x > X_MAX + 30000
              THEN /\ moved' = moved
                   /\ out_count' = out_count + 1
                   /\ v1.kind = "car" =>
                         /\ car_exited' = car_exited + 1
                         /\ car_delay_sum' = car_delay_sum + v1.delay_s
                         /\ car_stops_sum' = car_stops_sum + v1.stops_count
                         /\ car_exit_ts' = Append(car_exit_ts, t + 1)
                         /\ bus_delay_line' = bus_delay_line
                   /\ v1.kind = "bus" =>
                         /\ Get(bus_delay_line', v1.line, zero).exited
                               = Get(bus_delay_line, v1.line, zero).exited + 1
                         /\ Get(bus_delay_line', v1.line, zero).dwell
                               = Get(bus_delay_line, v1.line, zero).dwell + v1.dwell_s
                         /\ car_exited' = car_exited
              ELSE /\ moved' = Append(moved, v1)
                   /\ UNCHANGED <<out_count, car_exited, car_delay_sum, car_stops_sum,
                                  car_travel_sum, car_exit_ts, bus_delay_line>>
    /\ (entry = "run_sim" /\ pc = "update" /\ pc' = "tick") =>
          /\ vehicles' = moved
          /\ Len(vehicles') = Len(vehicles) - out_count
          /\ arrived' = arrived + out_count

\* C16: a vehicle is removed from the active set exactly once, on the first
\* tick at which its position exceeds X_MAX + 30 after its update; at the end
\* of every tick every active vehicle has x <= X_MAX + 30, its accumulators are
\* folded into the run totals exactly once, and a removed vehicle is never
\* updated or rendered again.
C16_RemovedExactlyOnce == []C16_ActiveAndTotals /\ [][C16_RemovalStep]_vars

\* a second car has just been removed and its travel time folded into the
\* total, while other vehicles stay active
C16_Witness ==
    /\ entry = "run_sim" /\ pc = "update" /\ vi > 1 /\ nv # <<>>
    /\ nv[1].x > X_MAX + 30000
    /\ nv[1].kind = "car"
    /\ out_count >= 1 /\ car_exited >= 2 /\ car_travel_sum > 0
    /\ moved # <<>>
    /\ \A i \in 1..Len(moved) : moved[i].id # nv[1].id

\* C17, the state part: the served-stops list of a bus holds no stop twice,
\* and a bus is past every stop it has served and is not dwelling at it.
C17_ServedOnce ==
    entry = "run_sim" =>
       \A i \in 1..Len(vehicles) :
          LET b == vehicles[i]
          IN  b.kind = "bus" =>
                 /\ \A p, q \in 1..Len(b.served_stops) :
                       b.served_stops[p] = b.served_stops[q] => p = q
                 /\ \A p \in 1..Len(b.served_stops) :
                       /\ b.x > b.served_stops[p]
                       /\ b.at_stop # <<b.served_stops[p]>>

\* C17, the step part: the update of a bus that has served stop sx neither
\* admits it to sx nor holds it in the queue before sx.
C17_NoSecondVisit ==
    IsUpdateStep =>
       LET b == vehicles[vi]
           a == nv'[1]
       IN  b.kind = "bus" =>
              \A p \in 1..Len(b.served_stops) :
                 LET sx == b.served_stops[p]
                 IN  /\ a.at_stop # <<sx>>
                     /\ stop_occupancy'[sx] = stop_occupancy[sx]
                     /\ last_arrival_time'[sx] = last_arrival_time[sx]
                     /\ monitor'.stops[stop_name[sx]].arrivals
                           = monitor.stops[stop_name[sx]].arrivals
                     /\ a.x # sx - PRESTOP_HOLD

\* C17: each bus is admitted to each bus stop at most once during a run: after
\* a bus has been released from a stop it never triggers admission or
\* queue-hold at that same stop again, and its served-stops list contains no
\* stop twice.
C17_AdmittedAtMostOnce == []C17_ServedOnce /\ [][C17_NoSecondVisit]_vars

\* a bus released from a stop has been updated again and has moved on
C17_Witness ==
    /\ entry = "run_sim" /\ pc = "update" /\ vi > 1 /\ nv # <<>>
    /\ nv[1].kind = "bus"
    /\ nv[1].served_stops # <<>>
    /\ nv[1].x > nv[1].served_stops[1] + 200
    /\ nv[1].dwell_s > 0

\* C18, one update step: a bus whose tentative move crosses a stop is admitted
\* exactly when the stop has fewer than 2 occupants and no bus was admitted
\* to it within the previous 18 ticks; otherwise it is put 16 m before the
\* stop, stopped and queueing, and the stop's tables do not change.  A stop
\* gains an occupant only through such an admission.
C18_AdmitOrHold ==
    IsUpdateStep =>
       LET b == vehicles[vi]
           a == nv'[1]
           dwelling == b.dwell_until # <<>> /\ t < b.dwell_until[1]
           leaving == b.dwell_until # <<>> /\ ~dwelling /\ b.at_stop # <<>>
           x0 == IF leaving THEN Max(b.x, b.at_stop[1] + 200) ELSE b.x
           x1 == IF leaving THEN Max(b.x + b.v, b.at_stop[1] + 200) ELSE b.x + b.v
           crosses(sx) == b.kind = "bus" /\ ~dwelling /\ x0 < sx /\ sx <= x1
           free(sx) == /\ Len(stop_occupancy[sx]) < 2
                       /\ \/ last_arrival_time[sx] = <<>>
                          \/ t - last_arrival_time[sx][1] > 18
       IN  \A sx \in DOMAIN stop_occupancy :
              /\ (crosses(sx) /\ free(sx)) =>
                    /\ a.at_stop = <<sx>> /\ a.dwell_until # <<>>
                    /\ a.stopped /\ a.stopped_at_station /\ ~a.queueing
                    /\ stop_occupancy'[sx] = Append(stop_occupancy[sx], b.id)
                    /\ stop_release_time'[sx] = Append(stop_release_time[sx], a.dwell_until[1])
                    /\ last_arrival_time'[sx] = <<t>>
              /\ (crosses(sx) /\ ~free(sx)) =>
                    /\ a.x = sx - 16000 /\ a.stopped /\ a.queueing
                    /\ a.at_stop = <<>>
                    /\ stop_occupancy'[sx] = stop_occupancy[sx]
                    /\ stop_release_time'[sx] = stop_release_time[sx]
                    /\ last_arrival_time'[sx] = last_arrival_time[sx]
              /\ Len(stop_occupancy'[sx]) > Len(stop_occupancy[sx]) =>
                    crosses(sx) /\ free(sx)
              /\ last_arrival_time'[sx] # last_arrival_time[sx] =>
                    /\ crosses(sx)
                    /\ last_arrival_time[sx] # <<>> =>
                          last_arrival_time'[sx][1] - last_arrival_time[sx][1] > 18

\* C18: a bus whose tentative move crosses a stop position is admitted if and
\* only if the stop has fewer than 2 occupants and no bus was admitted to that
\* stop within the previous 18 ticks; otherwise it is placed 16 units before
\* the stop with stopped and queueing set and the stop's occupancy, release
\* list and last-arrival tick unchanged; two admissions at the same stop are
\* never 18 or fewer ticks apart.
C18_AdmissionRule == [][C18_AdmitOrHold]_vars

\* a bus has just been held before a stop with a free berth, because another
\* bus was admitted there within the coincidence window
C18_Witness ==
    /\ entry = "run_sim" /\ pc = "update" /\ vi > 1 /\ nv # <<>>
    /\ nv[1].kind = "bus" /\ nv[1].queueing /\ nv[1].stopped
    /\ \E sx \in DOMAIN stop_occupancy :
          /\ nv[1].x = sx - PRESTOP_HOLD
          /\ Len(stop_occupancy[sx]) = 1
          /\ last_arrival_time[sx] # <<>>
          /\ t - last_arrival_time[sx][1] <= COINCIDENCE_WINDOW

\* C19: in every frame all active buses are rendered, and the number of cars
\* rendered never exceeds the volume-dependent cap (220 when the target vph is
\* below 1200, 320 when it is below 1800, otherwise 500).
C19_RenderWithinCap ==
    (frames # <<>> /\ pc \in {"tick", "done", "rendered"}) =>
       LET shown == frames[Len(frames)].vehicles
           cap == IF target_vph < 1200 THEN 220 ELSE IF target_vph < 1800 THEN 320 ELSE 500
       IN  /\ \A i \in 1..Len(vehicles) :
                 vehicles[i].kind = "bus" =>
                    \E r \in 1..Len(shown) : shown[r].id = vehicles[i].id
           /\ Cardinality({r \in 1..Len(shown) : shown[r].id.kind = "car"}) <= cap

\* the sum of the consecutive differences of a non-decreasing record: the
\* number of <<i, v>> with ts[i] <= v < ts[i + 1]
ExitDiffSum ==
    Cardinality({iv \in (1..(Len(car_exit_ts) - 1)) \X (0..(STEPS + 1)) :
                    car_exit_ts[iv[1]] <= iv[2] /\ iv[2] < car_exit_ts[iv[1] + 1]})

\* C20 as stated: exit ticks are recorded in non-decreasing order, and when
\* run_sim has returned the mean discharge headway KPI is None if fewer than
\* 2 cars have exited and otherwise is exactly the mean of the consecutive
\* differences of the exit ticks, a non-negative number.
C20_HeadwayIsMean ==
    entry = "run_sim" =>
        /\ \A i \in 1..(Len(car_exit_ts) - 1) : car_exit_ts[i] <= car_exit_ts[i + 1]
        /\ pc = "done" =>
              LET h == kpis[1].avg_discharge_headway_s
              IN  IF Len(car_exit_ts) < 2 THEN h = <<>>
                  ELSE /\ h # <<>>
                       /\ h[1] >= 0
                       /\ h[1] * (Len(car_exit_ts) - 1) = 100 * ExitDiffSum

\* C20 as amended: exit ticks are recorded in non-decreasing order, and when
\* run_sim has returned the mean discharge headway KPI is None (not zero) if
\* fewer than 2 cars have exited and otherwise is the mean of the
\* consecutive differences of the exit ticks rounded to two decimal places
\* (a value within half a hundredth of the mean), a non-negative number.
C20_HeadwayIsRoundedMean ==
    entry = "run_sim" =>
        /\ \A i \in 1..(Len(car_exit_ts) - 1) : car_exit_ts[i] <= car_exit_ts[i + 1]
        /\ pc = "done" =>
              LET h == kpis[1].avg_discharge_headway_s
                  count == Len(car_exit_ts) - 1
                  err == h[1] * count - 100 * ExitDiffSum
              IN  IF Len(car_exit_ts) < 2 THEN h = <<>>
                  ELSE /\ h # <<>>
                       /\ h[1] >= 0
                       /\ 2 * err <= count /\ 2 * err >= 0 - count

\* a run has returned with at least 2 car exits whose mean headway is not a
\* whole number of hundredths, and reports the rounded value
C20_Witness ==
    /\ entry = "run_sim" /\ pc = "done"
    /\ Len(car_exit_ts) >= 2
    /\ kpis[1].avg_discharge_headway_s # <<>>
    /\ (100 * ExitDiffSum) % (Len(car_exit_ts) - 1) # 0

-----------------------------------------------------------------------------
(* Claims about the TSP controller and policy *)

ExtendEvents(tls_id) ==
    {i \in 1..Len(events) : events[i].type = "TSP_EXTEND" /\ events[i].node = tls_id}

\* C7: two actual TSP grants (TSP_EXTEND events) at the same signal node are
\* never less than `cooldown` seconds apart.
C7_GrantsCooldownApart ==
    \A tls_id \in TlsIds : \A i, j \in ExtendEvents(tls_id) :
        i < j => events[j].t - events[i].t >= cooldown

\* a node was granted twice under a positive cooldown
C7_Witness ==
    /\ entry = "tsp" /\ cooldown > 0
    /\ \E tls_id \in TlsIds : Cardinality(ExtendEvents(tls_id)) >= 2

\* C8: the cumulative extension recorded for a node in the current cycle never
\* exceeds the configured per-cycle budget.
C8_BudgetRespected ==
    \A tls_id \in TlsIds :
        get_cycle_extensions(total_extensions, tls_id) <= max_cycle_extension

\* a node has used its whole budget through more than one grant, the last of
\* them cut down to the remaining budget
C8_Witness ==
    /\ entry = "tsp"
    /\ \E tls_id \in TlsIds :
          /\ get_cycle_extensions(total_extensions, tls_id) = max_cycle_extension
          /\ \E i \in ExtendEvents(tls_id) : events[i].sec < 8

\* C9: can_grant_tsp answers true for a node with no recorded grant, and for a
\* node with a recorded grant exactly when current_time - lastGrant >= cooldown.
C9_NeverGrantedIsIdle ==
    [][can_grant' # can_grant =>
          can_grant'.ret =
             (IF can_grant'.tls \in DOMAIN last_grant_time
              THEN can_grant'.t - last_grant_time[can_grant'.tls] >= cooldown
              ELSE TRUE)]_vars

\* C10: whenever h > H + delta, tsp_policy returns grant = true,
\* extend = max_ext, advance = max_adv and hold = 0.
C10_LateBusGranted ==
    (entry = "tsp_policy" /\ tsp_args.called
        /\ tsp_args.h_now > tsp_args.H + tsp_args.delta) =>
       /\ decision.grant = TRUE
       /\ decision.extend = tsp_args.max_ext
       /\ decision.advance = tsp_args.max_adv
       /\ decision.hold = 0

\* the policy was applied to a late headway with distinct max_ext and max_adv
C10_Witness ==
    /\ entry = "tsp_policy" /\ tsp_args.called
    /\ tsp_args.h_now > tsp_args.H + tsp_args.delta
    /\ tsp_args.max_ext # tsp_args.max_adv
    /\ decision.grant

\* C11: whenever h < H - delta, tsp_policy returns grant = false, hold = 15
\* and extend = advance = 0.
C11_EarlyBusHeld ==
    (entry = "tsp_policy" /\ tsp_args.called
        /\ tsp_args.h_now < tsp_args.H - tsp_args.delta) =>
       /\ decision.grant = FALSE
       /\ decision.hold = 15
       /\ decision.extend = 0
       /\ decision.advance = 0

\* the policy was applied to an early headway with a positive max_ext on offer
C11_Witness ==
    /\ entry = "tsp_policy" /\ tsp_args.called
    /\ tsp_args.h_now < tsp_args.H - tsp_args.delta
    /\ tsp_args.max_ext > 0
    /\ decision.hold = 15

\* C12: whenever H - delta <= h <= H + delta, the two boundaries included,
\* tsp_policy returns grant = false and extend = advance = hold = 0.
C12_NormalBandIdle ==
    (entry = "tsp_policy" /\ tsp_args.called
        /\ tsp_args.H - tsp_args.delta <= tsp_args.h_now
        /\ tsp_args.h_now <= tsp_args.H + tsp_args.delta) =>
       /\ decision.grant = FALSE
       /\ decision.extend = 0
       /\ decision.advance = 0
       /\ decision.hold = 0

\* the policy was applied to a headway exactly on a boundary of a band of
\* positive width
C12_Witness ==
    /\ entry = "tsp_policy" /\ tsp_args.called
    /\ tsp_args.delta > 0
    /\ tsp_args.h_now \in {tsp_args.H - tsp_args.delta, tsp_args.H + tsp_args.delta}
    /\ tsp_args.max_ext > 0
    /\ decision.hold = 0 /\ ~decision.grant

\* C13: apply_tsp_to_phase returns (min(decision.extend, budget - used), true)
\* when decision.grant holds and that minimum is positive, and (0, false) in
\* every other case.
C13_ActualExtension ==
    (entry = "apply_tsp_to_phase" /\ phase_call.called) =>
       LET m == Min(phase_call.decision.extend,
                    phase_call.max_cycle_extension
                       - phase_call.current_cycle_extensions)
       IN  phase_call.ret = IF phase_call.decision.grant /\ m > 0
                            THEN <<m, TRUE>> ELSE <<0, FALSE>>

\* a granted decision was cut down to a positive remaining budget
C13_Witness ==
    /\ entry = "apply_tsp_to_phase" /\ phase_call.called
    /\ phase_call.decision.grant
    /\ phase_call.current_cycle_extensions > 0
    /\ phase_call.ret[2]
    /\ phase_call.ret[1] < phase_call.decision.extend

-----------------------------------------------------------------------------
(* Claims about the offset functions *)

\* C14: for non-negative distances, a cycle in 30..180 and a speed in 20..80
\* km/h, compute_offsets returns a sequence whose first element is 0 and whose
\* every element lies in [0, cycle), and validate_offsets accepts it for the
\* same cycle.
C14_OffsetsValid ==
    (entry = "offsets" /\ offsets_call.called) =>
       /\ offsets_call.ret # <<>>
       /\ offsets_call.ret[1] = 0
       /\ \A i \in 1..Len(offsets_call.ret) :
             0 <= offsets_call.ret[i] /\ offsets_call.ret[i] < offsets_call.cycle_s
       /\ offsets_call.validated => offsets_call.valid

\* validate_offsets accepted an offset list in which the cumulative travel
\* time has wrapped around the cycle
C14_Witness ==
    /\ entry = "offsets" /\ offsets_call.validated /\ offsets_call.valid
    /\ Len(offsets_call.ret) >= 3
    /\ offsets_call.ret[3] < offsets_call.ret[2]

\* C15: compute_offsets returns one more element than the distance list, and
\* for node i >= 1 the cumulative travel time (sum of the first i distances
\* divided by the speed in m/s) modulo the cycle, truncated toward zero; in
\* particular compute_offsets([300, 280], 90, 40) = [0, 27, 52].
C15_OffsetsAreTravelTimes ==
    (entry = "offsets" /\ offsets_call.called) =>
       LET d == offsets_call.distances_m
           RECURSIVE total(_)
           total(j) == IF j = 0 THEN 0 ELSE total(j - 1) + d[j]
       IN  /\ Len(offsets_call.ret) = Len(d) + 1
           /\ offsets_call.ret[1] = 0
           /\ \A i \in 1..Len(d) :
                 offsets_call.ret[i + 1] =
                    ((total(i) * 36) \div (10 * offsets_call.v_prog_kmh))
                       % offsets_call.cycle_s

-----------------------------------------------------------------------------
(* Claims about the signal plan, the car demand and the run boundary *)

\* C21: in fixed mode every node's offset is 0, in run_sim whatever the
\* geometry and in run_corridor whatever offsets were requested, so that at
\* every tick all signal nodes show the same phase.
C21_FixedModeOffsetsZero ==
    /\ (entry = "run_sim" /\ req.mode = "fixed") =>
          /\ \A nid \in {"J1", "J2", "J3", "J4", "J5"} : offsets[nid] = 0
          /\ \A i \in 1..Len(frames) : \A a, b \in 1..Len(nodes) :
                frames[i].signals[a] = frames[i].signals[b]
    /\ (entry = "run_corridor" /\ call.mode = "fixed") =>
          /\ \A tls \in {"J1", "J2", "J3"} : actual_offsets[tls] = 0
          /\ \A a, b \in {"J1", "J2", "J3"} : getPhase(a, now) = getPhase(b, now)

\* a fixed-mode run whose frame of tick 30 shows red at every node
C21_Witness ==
    /\ entry = "run_sim" /\ req.mode = "fixed"
    /\ Len(frames) >= 31
    /\ \A a \in 1..Len(nodes) : frames[31].signals[a] = "r"

\* C22: once the demand is generated, the car departure timeline is strictly
\* increasing and every departure time lies in [0, STEPS), and when the run
\* has returned every generated car has been spawned.
C22_DeparturesIncreasingInRun ==
    (entry = "run_sim" /\ pc \notin {"demand", "render"}) =>
        /\ \A i \in 1..(Len(car_depart_times) - 1) :
              car_depart_times[i] < car_depart_times[i + 1]
        /\ \A i \in 1..Len(car_depart_times) :
              0 <= car_depart_times[i] /\ car_depart_times[i] < STEPS * 1000
        /\ pc = "done" => car_i = Len(car_depart_times)

\* C23: every generated car departure time d falls inside a green window of
\* the first node: k * C - offsets[J1] <= d < k * C - offsets[J1] + G for
\* some cycle index k.
C23_DeparturesInGreenWindow ==
    (entry = "run_sim" /\ pc \notin {"demand", "render"}) =>
        \A i \in 1..Len(car_depart_times) :
            \E kk \in 0..(STEPS \div C + 1) :
                /\ (kk * C - offsets["J1"]) * 1000 <= car_depart_times[i]
                /\ car_depart_times[i] < (kk * C - offsets["J1"] + G) * 1000

\* run_sim in glide_tsp mode has completed a tick without a TSP decision
\* having been taken
C24_TickWithoutDecision ==
    /\ entry = "run_sim" /\ req.mode = "glide_tsp"
    /\ Len(frames) >= 1
    /\ ~tsp_args.called

\* a step of run_corridor in glide_tsp mode applies the decision taken from
\* the most recent headway to every node: a hold is recorded for every node
\* that may be served, an extension for every node that may be served, is
\* in its main green and has budget left
C24_CorridorStepApplies ==
    (entry = "run_corridor" /\ call.mode = "glide_tsp" /\ step' = step + 1
        /\ Len(bus_passage_times') >= 2) =>
        LET d == tsp_policy(calculate_headway(bus_passage_times'),
                            Get(call.tsp, "H_sec", 360), Get(call.tsp, "delta_sec", 90),
                            Get(call.tsp, "max_extend", 8), Get(call.tsp, "max_advance", 6))
            ev == frames'[Len(frames')].events
            Has(type, tls) == \E j \in 1..Len(ev) : ev[j].type = type /\ ev[j].node = tls
        IN  \A tls \in {"J1", "J2", "J3"} :
                can_grant_tsp(last_grant_time, tls, now', cooldown) =>
                    /\ (~d.grant /\ d.hold > 0) => Has("BUS_HOLD", tls)
                    /\ (d.grant /\ getPhase(tls, now') = 0
                           /\ apply_tsp_to_phase(getNextSwitch(tls, now') - now',
                                                 get_cycle_extensions(total_extensions, tls),
                                                 d, 10, max_cycle_extension)[2])
                          => Has("TSP_EXTEND", tls)

\* C24: in glide_tsp mode the simulation loop takes the TSP decision at every
\* tick, from the most recently observed headway, and applies its grant or
\* hold outcome at every signal node, in run_sim and in run_corridor.
C24_TspInvokedEveryTick ==
    []~C24_TickWithoutDecision /\ [][C24_CorridorStepApplies]_vars

\* C25: two runs executing concurrently share no mutable state: a step of
\* one run leaves alone what the other run works on, that is its
\* pseudorandom source while it is drawing and its simulator connection
\* (open, at the same simulation time) while it holds one.
C25_RunsShareNoState ==
    [][entry = "pair" =>
         \A a, b \in {1, 2} :
            (a # b /\ pair'.run[a] # pair.run[a]) =>
               LET other == pair.run[b]
               IN  /\ (other.engine = "run_sim" /\ other.pc = "call"
                         /\ other.drawn # <<>>) =>
                          pair'.draws = pair.draws
                   /\ (other.engine = "run_corridor" /\ other.label # 0
                         /\ other.label \in pair.conns) =>
                          /\ other.label \in pair'.conns
                          /\ pair'.simt[other.label] = pair.simt[other.label]]_vars

\* C26: without the traci module run_corridor creates no simulator, starts no
\* connection and produces no frame, and returns the error result "SUMO/TraCI
\* not available" whatever its arguments; run_sim never touches the state of
\* that backend.
C26_NoTraciNoSimulation ==
    /\ (entry = "run_corridor" /\ ~call.traci) =>
          /\ pc \in {"call", "returned"}
          /\ connection_label = <<>> /\ traci_loaded = call.was_loaded
          /\ attempt = 0 /\ step = 0 /\ frames = <<>> /\ kpis = <<>>
          /\ events = <<>> /\ bus_passage_times = <<>>
          /\ pc = "returned" => result = << [error |-> <<"SUMO/TraCI not available">>] >>
    /\ entry = "run_sim" => CorIdle

\* run_corridor has returned without traci for a call whose other arguments
\* would let a simulation start
C26_Witness ==
    /\ entry = "run_corridor" /\ ~call.traci
    /\ call.mode = "glide_tsp" /\ call.assets_dir /\ call.sumocfg
    /\ pc = "returned" /\ result # <<>>

\* C27: run_corridor called with a mode outside {fixed, glide, glide_tsp}
\* never starts a simulation and returns an error result whose message names
\* the unknown mode, whatever the other arguments and the environment.
C27_UnknownModeNamed ==
    (entry = "run_corridor" /\ call.mode \notin {"fixed", "glide", "glide_tsp"}) =>
        /\ pc \in {"call", "returned"}
        /\ connection_label = <<>> /\ attempt = 0 /\ step = 0 /\ frames = <<>>
        /\ pc = "returned" => result = << [error |-> <<"Unknown mode: ", call.mode>>] >>

\* C28: on every path out of run_corridor after the simulator is created
\* (success, failed start, exception during stepping) close_connection has
\* run; afterwards connection_label is None, also when traci.close raised,
\* and no exception of close_connection reaches the caller
C28_ClosedOnEveryExit ==
    (/\ entry = "run_corridor" /\ pc = "returned"
     /\ call.traci /\ call.mode \in {"fixed", "glide", "glide_tsp"}) =>
        /\ close_calls >= 1
        /\ connection_label = <<>>
        /\ \A i \in 1..Len(result) : "raised" \notin DOMAIN result[i]

\* a run whose traci.close raised inside close_connection has returned
C28_Witness ==
    /\ entry = "run_corridor" /\ pc = "returned"
    /\ call.close_raises /\ traci_loaded /\ step > 0
    /\ close_calls = 1 /\ connection_label = <<>>

\* C29: a run of run_corridor that fails after the simulator is created (the
\* simulation cannot be started, or a tick raises) raises nothing and returns
\* a dict with an error and success = false, and no KPIs of a partial run
C29_StructuredFailure ==
    (/\ entry = "run_corridor" /\ pc = "returned"
     /\ call.traci /\ call.mode \in {"fixed", "glide", "glide_tsp"}
     /\ result # << [success |-> TRUE] >>) =>
        /\ kpis = <<>>
        /\ \A i \in 1..Len(result) :
              /\ {"error", "success"} \subseteq DOMAIN result[i]
              /\ result[i].success = FALSE

\* C30: after every update of a vehicle by update_one its stopped flag is
\* true exactly when its position after the update equals its position before
\* the update (vehicles[vi - 1] is the vehicle as it was, nv as it is now)
C30_StoppedIffUnmoved ==
    (entry = "run_sim" /\ pc = "update" /\ vi > 1) =>
        (nv[1].stopped <=> nv[1].x = vehicles[vi - 1].x)

\* C30 as it holds: a bus that is still dwelling is stopped and in place; a bus
\* whose move crosses a stop (it is admitted or queue-held) is stopped
\* wherever it is put; every other vehicle is stopped exactly when it ends
\* where its move started, which is its position before the update, or 0.2
\* past the stop for a bus released in this update
C30_StoppedAfterUpdate ==
    (entry = "run_sim" /\ pc = "update" /\ vi > 1) =>
        LET vh == vehicles[vi - 1]
            dwell == vh.kind = "bus" /\ vh.dwell_until # <<>>
            leaves == dwell /\ ~(t < vh.dwell_until[1]) /\ vh.at_stop # <<>>
            x == IF leaves THEN Max(vh.x, vh.at_stop[1] + 200) ELSE vh.x
            x_try == IF leaves THEN Max(vh.x + vh.v, vh.at_stop[1] + 200) ELSE vh.x + vh.v
        IN  IF dwell /\ t < vh.dwell_until[1]
            THEN nv[1].stopped /\ nv[1].x = vh.x
            ELSE IF vh.kind = "bus" /\ StopsCrossed(x, x_try) # {}
            THEN nv[1].stopped
            ELSE nv[1].stopped <=> nv[1].x = x

\* a bus has just been admitted to a stop: it moved and is flagged as stopped
C30_Witness ==
    /\ entry = "run_sim" /\ pc = "update" /\ vi > 1
    /\ vehicles[vi - 1].kind = "bus" /\ vehicles[vi - 1].dwell_until = <<>>
    /\ nv[1].dwell_until # <<>> /\ nv[1].stopped
    /\ nv[1].x > vehicles[vi - 1].x

-----------------------------------------------------------------------------
(* Claims about dwell, the signal cycle, the TSP budget, the start of the   *)
(* simulator and the run_sim statistics                                     *)

\* C31, one update step of a bus b (a is the bus after the update)
C31_DwellStep ==
    IsUpdateStep =>
       LET b == vehicles[vi]
           a == nv'[1]
       IN  b.kind = "bus" =>
              /\ (b.dwell_until = <<>> /\ a.dwell_until # <<>>) =>
                     /\ a.dwell_until = <<t + dwell_cfg(b)>>
                     /\ a.stopped_at_station
                     /\ InSeq(stop_occupancy'[a.at_stop[1]], b.id)
              /\ (b.dwell_until # <<>> /\ t < b.dwell_until[1]) =>
                     /\ a.x = b.x /\ a.stopped_at_station
                     /\ a.dwell_until = b.dwell_until /\ a.at_stop = b.at_stop
                     /\ InSeq(stop_occupancy[b.at_stop[1]], b.id)
                     /\ stop_occupancy' = stop_occupancy
                     /\ stop_release_time' = stop_release_time
              /\ (b.dwell_until # <<>> /\ ~(t < b.dwell_until[1])) =>
                     LET sx0 == b.at_stop[1]
                     IN  /\ t = Max(b.dwell_until[1], b.dwell_until[1] - dwell_cfg(b) + 1)
                         /\ InSeq(stop_occupancy[sx0], b.id)
                         /\ ~InSeq(stop_occupancy'[sx0], b.id)
                         /\ Len(stop_release_time'[sx0]) = Len(stop_release_time[sx0]) - 1
                         /\ Len(stop_occupancy'[sx0]) = Len(stop_release_time'[sx0])
                         /\ a.dwell_until = <<>> /\ ~a.stopped_at_station
                         /\ a.x >= sx0 + 200

\* C31: a bus admitted to a stop at tick t with configured dwell d gets
\* dwell-until t + d, keeps its position with stopped_at_station set and
\* stays in the stop's occupant list on every tick before t + d, and on the
\* first tick >= t + d leaves the occupant list together with its release
\* entry and moves on from just past the stop
C31_DwellThenRelease == [][C31_DwellStep]_vars

\* a bus that dwelled has just left the occupant list of its stop
C31_Witness ==
    /\ entry = "run_sim" /\ pc = "update" /\ vi > 1
    /\ vehicles[vi - 1].kind = "bus" /\ vehicles[vi - 1].dwell_until = <<t>>
    /\ nv[1].dwell_until = <<>> /\ nv[1].dwell_s > 0
    /\ ~InSeq(stop_occupancy[vehicles[vi - 1].at_stop[1]], nv[1].id)
    /\ nv[1].x >= vehicles[vi - 1].at_stop[1] + 200

\* the number of the first n frames in which node i shows state st
PhaseTicks(i, st, n) == Cardinality({j \in 1..n : frames[j].signals[i] = st})

\* C32: for every cycle C in 30..180, G + Y <= C; the phase of a node at a
\* tick (the newest frame) is Green, Yellow or Red as (t + offset) mod C is
\* below G, below G + Y or not; from one tick to the next a node stays in its
\* phase or goes
\* Green -> Yellow, Yellow -> Red or Red -> Green, never Green -> Red; and
\* C consecutive ticks hold exactly G green, Y yellow and C - G - Y red ticks
C32_PhaseCycle ==
    entry = "signals" =>
       /\ G + Y <= C /\ G > 0
       /\ \A j \in {Len(frames)} \ {0} : \A i \in 1..Len(nodes) :
             LET tau == (frames[j].t + offsets[nodes[i]]) % C
                 shown == frames[j].signals[i]
             IN  /\ shown = "G" <=> tau < G
                 /\ shown = "y" <=> (G <= tau /\ tau < G + Y)
                 /\ shown = "r" <=> G + Y <= tau
                 /\ j > 1 =>
                       <<frames[j - 1].signals[i], shown>> \in
                          {<<"G", "G">>, <<"G", "y">>, <<"y", "y">>, <<"y", "r">>,
                           <<"r", "r">>, <<"r", "G">>}
       /\ Len(frames) >= C =>
             \A i \in 1..Len(nodes) :
                /\ PhaseTicks(i, "G", C) = G
                /\ PhaseTicks(i, "y", C) = Y
                /\ PhaseTicks(i, "r", C) = C - G - Y

\* a whole cycle of the shortest plan has been shown with node J2 offset
C32_Witness ==
    /\ entry = "signals" /\ req.cycle = 30 /\ req.mode = "glide"
    /\ Len(frames) = 31
    /\ offsets["J2"] = 15
    /\ frames[3].signals[2] = "G" /\ frames[4].signals[2] = "y"
    /\ frames[10].signals[2] = "r" /\ frames[16].signals[2] = "G"

\* C33: for every cycle length in 30..180 the green duration of the signal
\* plan is round(0.6 x cycle) and the yellow duration is 6 seconds
C33_GreenIsRounded ==
    (entry = "signals" /\ Len(frames) >= C) =>
       \A i \in 1..Len(nodes) :
          /\ 10 * PhaseTicks(i, "G", C) - 5 <= 6 * C
          /\ 6 * C < 10 * PhaseTicks(i, "G", C) + 5
          /\ PhaseTicks(i, "y", C) = 6

\* C33 as it holds: the green duration is 0.6 x cycle rounded down to a whole
\* second, and the yellow duration is 6 seconds
C33_GreenIsTruncated ==
    (entry = "signals" /\ Len(frames) >= C) =>
       \A i \in 1..Len(nodes) :
          /\ 5 * PhaseTicks(i, "G", C) <= 3 * C
          /\ 3 * C < 5 * (PhaseTicks(i, "G", C) + 1)
          /\ PhaseTicks(i, "y", C) = 6

\* a cycle of 33 s has been shown: 19 green ticks where 0.6 x 33 = 19.8
C33_Witness ==
    /\ entry = "signals" /\ req.cycle = 33 /\ Len(frames) >= 33
    /\ PhaseTicks(1, "G", 33) = 19 /\ PhaseTicks(1, "y", 33) = 6

\* C34, one loop step of run_corridor: a node whose signal program starts a
\* new cycle at the time of the step has no extension seconds on its budget
\* but those granted in this very step
C34_CycleStartStep ==
    (entry = "run_corridor" /\ pc = "loop" /\ step' = step + 1) =>
       \A i \in 1..Len(CorridorTls) :
          LET tls_id == CorridorTls[i]
              ev == frames'[Len(frames')].events
              granted == {j \in 1..Len(ev) :
                            ev[j].type = "TSP_EXTEND" /\ ev[j].node = tls_id}
          IN  ProgramClock(tls_id, now') = 0 =>
                 /\ granted = {} => Get(total_extensions', tls_id, 0) = 0
                 /\ \A j \in granted : Get(total_extensions', tls_id, 0) = ev[j].sec

\* C34: when a new signal cycle starts for a node, the node's accumulated
\* extension budget usage is reset to zero, so that the full budget is
\* available again in the new cycle
C34_BudgetResetsEachCycle == [][C34_CycleStartStep]_vars

\* C35: start_simulation makes at most 3 connection attempts and stops at the
\* first that succeeds, after which the loop of run_corridor runs; when all 3
\* attempts fail, or the SUMO config file (or the assets directory) is
\* missing, nothing is raised and run_corridor returns the start error with
\* no frames
C35_StartAttempts ==
    (entry = "run_corridor" /\ call.traci /\ call.mode \in {"fixed", "glide", "glide_tsp"}) =>
       LET files == call.assets_dir /\ call.sumocfg
           failed == << [error |-> <<"Failed to start SUMO simulation">>] >>
       IN  /\ attempt <= 3
           /\ ~files => attempt = 0
           /\ pc = "loop" => (files /\ attempt = call.start_failures + 1)
           /\ pc = "returned" =>
                 IF files /\ call.start_failures < 3
                 THEN attempt = call.start_failures + 1 /\ result # failed
                 ELSE /\ result = failed
                      /\ frames = <<>> /\ step = 0 /\ kpis = <<>>
                      /\ files => attempt = 3

\* run_corridor has returned after three failed connection attempts
C35_Witness ==
    /\ entry = "run_corridor" /\ pc = "returned"
    /\ call.start_failures = 3 /\ attempt = 3
    /\ result = << [error |-> <<"Failed to start SUMO simulation">>] >>
    /\ frames = <<>>

\* C36, one update step of a car: when the node of the nearest stop line
\* ahead of the car is Green at the tick, or no stop line is ahead, the car
\* advances by exactly its speed
C36_GreenMeansMove ==
    IsUpdateStep =>
       LET b == vehicles[vi]
           ahead == {n \in DOMAIN stoplines : stoplines[n] > b.x}
           nid == CHOOSE n \in ahead : \A o \in ahead : stoplines[n] <= stoplines[o]
       IN  (b.kind = "car" /\ (ahead = {} \/ ew_state(nid, t) = "G")) =>
              /\ nv'[1].x = b.x + b.v
              /\ ~nv'[1].stopped

\* C36, the state part: no car shown in the newest frame has been shown as
\* stopped in more than C - G consecutive frames, and no active car has been
\* in the corridor longer than its way at its speed takes, with one partial
\* move and C - G waiting ticks for each of the 5 stop lines
C36_NoLongStop ==
    entry = "run_sim" =>
       /\ LET n == Len(frames)
              W == C - G
          IN  n > W =>
                 \A r \in 1..Len(frames[n].vehicles) :
                    LET id == frames[n].vehicles[r].id
                    IN  id.kind = "car" =>
                           \E j \in (n - W)..n :
                              \A q \in 1..Len(frames[j].vehicles) :
                                 frames[j].vehicles[q].id = id
                                    => ~frames[j].vehicles[q].stopped
       /\ pc \in {"tick", "update"} =>
             \A i \in 1..Len(vehicles) :
                LET b == vehicles[i]
                IN  b.kind = "car" =>
                       1000 * t - b.enter_t
                          <= 1000 * (((X_MAX + 30000 - X_MIN) \div b.v) + 1
                                     + 5 * (1 + C - G))

\* C36: a car whose next stop line is Green, or that has no stop line ahead,
\* advances by exactly its speed in the tick; hence no car is stopped for more
\* than C - G consecutive ticks and every car keeps advancing towards the
\* exit of the corridor
C36_CarsKeepMoving == []C36_NoLongStop /\ [][C36_GreenMeansMove]_vars

\* a car that waited at a stop line whose node turned Green has moved on by
\* its speed
C36_Witness ==
    /\ entry = "run_sim" /\ pc = "update" /\ vi > 1
    /\ vehicles[vi - 1].kind = "car" /\ vehicles[vi - 1].stopped
    /\ nv[1].delay_s > 2 /\ ~nv[1].stopped
    /\ nv[1].x = vehicles[vi - 1].x + nv[1].v

\* C37, the state part: a bus that is beyond a stop has served it, the stops
\* are served in the order of the road, each at most once, and each served
\* stop has cost the bus dwell time
C37_PassedMeansServed ==
    entry = "run_sim" =>
       \A b \in {vehicles[i] : i \in 1..Len(vehicles)} \cup {nv[i] : i \in 1..Len(nv)} :
          b.kind = "bus" =>
             /\ \A i \in 1..Len(bus_stops) :
                   b.x >= bus_stops[i] => InSeq(b.served_stops, bus_stops[i])
             /\ Len(b.served_stops) <= Len(bus_stops)
             /\ b.served_stops = SubSeq(bus_stops, 1, Len(b.served_stops))
             /\ b.dwell_s >= Len(b.served_stops)

\* C37, the step part: a bus that leaves the corridor has served both stops,
\* and a bus held in the queue before a stop stays before that stop
C37_ExitAfterBothStops ==
    IsUpdateStep =>
       LET a == nv'[1]
       IN  a.kind = "bus" =>
              /\ Exits(a) => a.served_stops = bus_stops
              /\ (a.queueing /\ a.stopped /\ a.dwell_until = <<>>) =>
                     \E i \in 1..Len(bus_stops) :
                        /\ a.x = bus_stops[i] - PRESTOP_HOLD
                        /\ ~InSeq(a.served_stops, bus_stops[i])

\* C37: a bus passes a bus stop only through admission, dwell and release at
\* that stop: every bus that exits has been admitted to both stops exactly
\* once, the upstream stop before the downstream stop, and no queue-held bus
\* ends a tick beyond the stop that denied it without having dwelled there
C37_StopsNotSkipped == []C37_PassedMeansServed /\ [][C37_ExitAfterBothStops]_vars

\* a bus has left the corridor after dwelling at both stops
C37_Witness ==
    /\ entry = "run_sim" /\ pc = "update" /\ vi > 1
    /\ nv[1].kind = "bus" /\ Exits(nv[1])
    /\ nv[1].served_stops = <<-450000, 450000>>
    /\ nv[1].dwell_s >= 2

C39_QueueDepthZero ==
    (entry = "run_sim" /\ monitor # <<>>) =>
       \A nm \in DOMAIN monitor.stops :
          /\ monitor.stops[nm].queue_now = 0
          /\ monitor.stops[nm].queue_max = 0

\* buses have been held in the queue before a stop that has admitted two
C39_Witness ==
    /\ entry = "run_sim" /\ monitor # <<>>
    /\ monitor.stops["S1"].arrivals >= 2
    /\ Len(stop_occupancy[-450000]) = 2
    /\ \E lid \in DOMAIN monitor.lines : monitor.lines[lid].queue_holds >= 2
    /\ monitor.stops["S1"].queue_now = 0 /\ monitor.stops["S1"].queue_max = 0

\* C40: in run_sim the mode glide_tsp behaves exactly like glide.  When the
\* request answered in mode glide is posted again in mode glide_tsp with the
\* same random draws, the frames produced so far are at every moment the first
\* frames of the glide response, and at the end of the run the frames, the KPIs
\* (the mode label apart) and the monitor statistics are those of the glide
\* response; the event list is empty throughout, and at the end of the run the
\* tsp_extends and holds counters of every line are 0.
C40_GlideTspLikeGlide ==
    (entry = "run_sim" /\ compared # <<>>) =>
        /\ req.mode = "glide_tsp"
        /\ events = <<>> /\ compared[1].events = <<>>
        /\ Len(frames) <= Len(compared[1].frames)
        /\ frames = SubSeq(compared[1].frames, 1, Len(frames))
        /\ pc = "done" =>
              /\ frames = compared[1].frames
              /\ kpis # <<>>
              /\ kpis[1].mode = "glide_tsp" /\ compared[1].kpis[1].mode = "glide"
              /\ [kpis[1] EXCEPT !.mode = "glide"] = compared[1].kpis[1]
              /\ monitor = compared[1].monitor
              /\ \A lid \in DOMAIN monitor.lines :
                    /\ monitor.lines[lid].tsp_extends = 0
                    /\ monitor.lines[lid].holds = 0

\* a glide_tsp run with computed offsets and a bus served at a stop has ended
\* after the glide run of the same request
C40_Witness ==
    /\ entry = "run_sim" /\ compared # <<>> /\ pc = "done"
    /\ req.mode = "glide_tsp"
    /\ offsets["J2"] # 0
    /\ Len(frames) = STEPS /\ Len(compared[1].frames) = STEPS
    /\ \E lid \in DOMAIN monitor.lines : monitor.lines[lid].arrivals > 0


====
